---- MODULE Spec2Model ----
(***************************************************************************)
(* Wager-backed arena: ledger / escrow, lobby lifecycle, settlement and    *)
(* the game server's match loop, modelled from the TypeScript services.   *)
(*                                                                         *)
(* The persistent state is the PostgreSQL tables the services write        *)
(* (wallets, wallet_tx, lobbies, lobby_players, matches, match_players).   *)
(* Every service method runs inside db.transaction: it commits as a whole  *)
(* or, when it throws, rolls back as a whole.  The WalletService methods   *)
(* open a transaction of their own, so when LobbyService or                *)
(* SettlementService call them from inside their transaction the wallet    *)
(* change commits on its own, before and independently of the caller's.    *)
(***************************************************************************)
EXTENDS Integers, Sequences, FiniteSets, Bags, TLC

(* ---------------------------- bounds ---------------------------------- *)
NumUsers == 2
MaxLobbies == 2
MaxMatches == 2
MaxLedger == 4
MaxAmount == 2
MaxMass == 1
NumSeeds == 1
NumNonces == 1
NumSims == 2
MaxGamePlayers == 2
MaxBuyIn == 3
MaxTicks == 4
MaxEat == 2
MaxResultPlayers == 4
NumSessions == 2
MaxAxis == 1
NumProcs == 2
MaxCommits == 3

(* ------------------------- program constants -------------------------- *)
HOUSE == 0
NULL == -1
MAX_PLAYERS == 20
BPS_DENOM == 10000

Users == 1..NumUsers
Amounts == {0, MaxAmount}
Masses == 0..MaxMass
IdemKeys == {"", "k1", "k2"}

(* Lobby configurations an administrator creates through createLobby:     *)
(* <<buy_in_cents, payout_model, rake_bps, rake_cap_cents>>.              *)
LobbyConfigs ==
  { [buy_in_cents |-> 2, payout_model |-> "WINNER_TAKE_ALL", rake_bps |-> 5000, rake_cap_cents |-> 1],
    [buy_in_cents |-> 2, payout_model |-> "TOP_3_LADDER",    rake_bps |-> 0,    rake_cap_cents |-> NULL],
    [buy_in_cents |-> 2, payout_model |-> "PROPORTIONAL",    rake_bps |-> 5000, rake_cap_cents |-> 0] }

VARIABLES
  wallets,        \* wallets table: user -> [available_cents, escrow_cents, version]
  kyc,            \* profiles.kyc_status per user
  ledger,         \* wallet_tx table, a bag of committed rows
  lobbies,        \* lobbies table, a sequence indexed by lobby id
  lobby_players,  \* lobby_players table, a set of <<lobby_id, user_id>>
  matches,        \* matches table, a sequence indexed by match id
  match_players,  \* match_players table, a set of result rows
  house_user,     \* whether a users row exists for the house id
  ret,            \* outcome of the last service call: [op, ok]
  up,             \* whether the game-server process is running
  now,            \* Date.now() of the game server, in ms
  heap,           \* game server: the Match objects created, each with the interval set for it
  activeMatches,  \* game server: match id -> the Match object of the map, an index of heap
  matchIntervals, \* game server: match id -> the interval of the map, an index of heap
  cleanupTimers,  \* game server: match id -> number of pending clean-up timers
  resultSent,     \* match id -> number of RESULT messages emitted to the room of the id
  crashedMatches, \* ids of the matches that were in memory when the process died
  crashes,        \* number of times the game-server process died
  sims,           \* Match objects as their constructor leaves them: slot -> spawn and pellet positions
  game,           \* a running Match: growth cap, the cells' masses, the number of pellets
  sessions,       \* socket connections of the game server: socket -> player and messages seen
  txs,            \* wallet transactions in flight: connection -> statement position and buffered writes
  rowLock,        \* wallets row locks: user -> the connection holding the lock, 0 if none
  commitLog       \* the wallet operations committed by concurrent connections, in commit order

dbVars == <<wallets, kyc, ledger, lobbies, lobby_players, matches, match_players, house_user, ret>>
gsVars == <<up, now, heap, activeMatches, matchIntervals, cleanupTimers, resultSent, crashedMatches, crashes>>
simVars == <<sims, game, sessions>>
concVars == <<txs, rowLock, commitLog>>
vars == <<dbVars, gsVars, simVars, concVars>>

(* ------------------------------ helpers ------------------------------- *)
Min(a, b) == IF a <= b THEN a ELSE b

RECURSIVE SumSeq(_)
SumSeq(s) == IF s = <<>> THEN 0 ELSE Head(s) + SumSeq(Tail(s))

(* All orders in which a SELECT without ORDER BY may return the set S.    *)
Orders(S) ==
  { f \in [1..Cardinality(S) -> S] : \A i, j \in 1..Cardinality(S) : i # j => f[i] # f[j] }

Members(l) == { u \in Users : <<l, u>> \in lobby_players }

(* The lobby_players rows of lobby l. *)
LobbyRows(l) == { p \in lobby_players : p[1] = l }

Row(u, type, amt, ref, key) ==
  [user_id |-> u, type |-> type, amount_cents |-> amt, status |-> "COMPLETED",
   ref |-> ref, idempotency_key |-> key]

Insert(lg, row) == lg (+) SetToBag({row})

KeyUsedMutant(lg, key) == FALSE

KeyUsed(lg, key) == \E r \in BagToSet(lg) : r.idempotency_key = key

Result(op, ok) == [op |-> op, ok |-> ok]

(* A ledger row stands for its id: idempotency_key is UNIQUE, so a keyed  *)
(* row is the only one of its content, and rows without a key that agree  *)
(* in every column are interchangeable.  existing.rows[0] of the          *)
(* idempotency lookup:                                                    *)
RowWithKey(lg, key) == CHOOSE r \in BagToSet(lg) : r.idempotency_key = key

(* The reply of deposit and withdraw: the id of a ledger row. *)
TxResult(op, row) == [op |-> op, ok |-> TRUE, tx |-> row]

(* ------------------------- WalletService ------------------------------ *)

(* WalletService.deposit *)
Deposit(u, amt, key) ==
  /\ BagCardinality(ledger) < MaxLedger
  /\ IF amt <= 0
       THEN /\ ret' = Result("deposit", FALSE)
            /\ UNCHANGED <<wallets, ledger>>
       ELSE IF key # "" /\ KeyUsed(ledger, key)
         THEN \* a committed row is always COMPLETED: the call returns its id
              /\ ret' = TxResult("deposit", RowWithKey(ledger, key))
              /\ UNCHANGED <<wallets, ledger>>
         ELSE /\ ledger' = Insert(ledger, Row(u, "DEPOSIT", amt, 0, key))
              /\ wallets' = [wallets EXCEPT ![u].available_cents = @ + amt,
                                            ![u].version = @ + 1]
              /\ ret' = TxResult("deposit", Row(u, "DEPOSIT", amt, 0, key))
  /\ UNCHANGED <<kyc, lobbies, lobby_players, matches, match_players, house_user>>
  /\ UNCHANGED <<gsVars, simVars, concVars>>

(* WalletService.withdraw *)
WithdrawMutant(u, amt, key) ==
  /\ IF amt <= 0 \/ kyc[u] # "APPROVED"
       THEN /\ ret' = Result("withdraw", FALSE)
            /\ UNCHANGED <<wallets, ledger>>
       ELSE IF key # "" /\ KeyUsed(ledger, key)
         THEN /\ ret' = TxResult("withdraw", RowWithKey(ledger, key))
              /\ UNCHANGED <<wallets, ledger>>
         ELSE /\ ledger' = Insert(ledger, Row(u, "WITHDRAWAL", -amt, 0, key))
              /\ wallets' = [wallets EXCEPT ![u].available_cents = @ - amt,
                                            ![u].version = @ + 1]
              /\ ret' = TxResult("withdraw", Row(u, "WITHDRAWAL", -amt, 0, key))
  /\ UNCHANGED <<kyc, lobbies, lobby_players, matches, match_players, house_user>>
  /\ UNCHANGED <<gsVars, simVars, concVars>>

Withdraw(u, amt, key) ==
  /\ IF amt <= 0 \/ kyc[u] # "APPROVED"
       THEN /\ ret' = Result("withdraw", FALSE)
            /\ UNCHANGED <<wallets, ledger>>
       ELSE IF key # "" /\ KeyUsed(ledger, key)
         THEN /\ ret' = TxResult("withdraw", RowWithKey(ledger, key))
              /\ UNCHANGED <<wallets, ledger>>
         ELSE IF wallets[u].available_cents < amt
           THEN /\ ret' = Result("withdraw", FALSE)
                /\ UNCHANGED <<wallets, ledger>>
           ELSE /\ ledger' = Insert(ledger, Row(u, "WITHDRAWAL", -amt, 0, key))
                /\ wallets' = [wallets EXCEPT ![u].available_cents = @ - amt,
                                              ![u].version = @ + 1]
                /\ ret' = TxResult("withdraw", Row(u, "WITHDRAWAL", -amt, 0, key))
  /\ UNCHANGED <<kyc, lobbies, lobby_players, matches, match_players, house_user>>
  /\ UNCHANGED <<gsVars, simVars, concVars>>

(* WalletService.lockEscrow: the transaction's effect on a database db =  *)
(* [w, lg, ok]; ok = FALSE when it throws (and then commits nothing).     *)
lockEscrow(db, u, amt, ref) ==
  IF amt <= 0 \/ db.w[u].available_cents < amt
    THEN [db EXCEPT !.ok = FALSE]
    ELSE [w  |-> [db.w EXCEPT ![u].available_cents = @ - amt,
                              ![u].escrow_cents = @ + amt,
                              ![u].version = @ + 1],
          lg |-> Insert(db.lg, Row(u, "ESCROW_LOCK", amt, ref, "")),
          ok |-> TRUE]

(* WalletService.refundEscrow: no balance check in the code; the wallets  *)
(* CHECK (escrow_cents >= 0) constraint aborts the transaction.           *)
refundEscrowMutant(db, u, amt, ref) ==
  [w  |-> [db.w EXCEPT ![u].available_cents = @ + amt, ![u].version = @ + 1],
   lg |-> Insert(db.lg, Row(u, "REFUND", amt, ref, "")),
   ok |-> TRUE]
refundEscrow(db, u, amt, ref) ==
  IF db.w[u].escrow_cents - amt < 0 \/ db.w[u].available_cents + amt < 0
    THEN [db EXCEPT !.ok = FALSE]
    ELSE [w  |-> [db.w EXCEPT ![u].available_cents = @ + amt,
                              ![u].escrow_cents = @ - amt,
                              ![u].version = @ + 1],
          lg |-> Insert(db.lg, Row(u, "REFUND", amt, ref, "")),
          ok |-> TRUE]

(* The escrow released per player in WalletService.settleMatch.           *)
EscrowShare(totalEscrow, n) == totalEscrow \div n

RECURSIVE settlePayouts(_, _, _, _)
settlePayouts(db, payouts, share, m) ==
  IF payouts = <<>> \/ ~db.ok THEN db
  ELSE LET p == Head(payouts)
           u == p.userId
       IN IF db.w[u].escrow_cents - share < 0 \/ db.w[u].available_cents + p.payoutCents < 0
            THEN [db EXCEPT !.ok = FALSE]
            ELSE settlePayouts(
                   [w  |-> [db.w EXCEPT ![u].escrow_cents = @ - share,
                                        ![u].available_cents = @ + p.payoutCents,
                                        ![u].version = @ + 1],
                    lg |-> Insert(db.lg, Row(u, "PAYOUT", p.payoutCents, m, "")),
                    ok |-> TRUE],
                   Tail(payouts), share, m)

(* WalletService.settleMatch, one transaction.  totalEscrow / length is a *)
(* JavaScript division: a non-integer quotient is not a valid BIGINT      *)
(* parameter and the first UPDATE fails.  The RAKE row references the     *)
(* house user id through wallet_tx.user_id REFERENCES users(id).          *)
walletSettleMatch(db, m, payouts, rakeCents) ==
  LET totalPayout == SumSeq([i \in 1..Len(payouts) |-> payouts[i].payoutCents])
      totalEscrow == totalPayout + rakeCents
      n           == Len(payouts)
      after       == settlePayouts(db, payouts, EscrowShare(totalEscrow, n), m)
  IN IF n > 0 /\ totalEscrow % n # 0 THEN [db EXCEPT !.ok = FALSE]
     ELSE IF ~after.ok \/ ~house_user THEN [db EXCEPT !.ok = FALSE]
     ELSE [after EXCEPT !.lg = Insert(after.lg, Row(HOUSE, "RAKE", rakeCents, m, ""))]

DB == [w |-> wallets, lg |-> ledger, ok |-> TRUE]

(* --------------------------- LobbyService ----------------------------- *)

(* LobbyService.createLobby *)
CreateLobby(cfg) ==
  /\ Len(lobbies) < MaxLobbies
  /\ lobbies' = Append(lobbies, [buy_in_cents   |-> cfg.buy_in_cents,
                                 payout_model   |-> cfg.payout_model,
                                 rake_bps       |-> cfg.rake_bps,
                                 rake_cap_cents |-> cfg.rake_cap_cents,
                                 state          |-> "WAITING"])
  /\ ret' = Result("createLobby", TRUE)
  /\ UNCHANGED <<wallets, kyc, ledger, lobby_players, matches, match_players, house_user>>
  /\ UNCHANGED <<gsVars, simVars, concVars>>

(* LobbyService.getMaxPlayers *)
getMaxPlayers == MAX_PLAYERS

JoinAdmissibleMutant(l, u) ==
  /\ l \in DOMAIN lobbies
  /\ lobbies[l].state = "WAITING"
  /\ <<l, u>> \notin lobby_players

(* The checks of joinLobby that precede the escrow lock. *)
JoinAdmissible(l, u) ==
  /\ l \in DOMAIN lobbies
  /\ lobbies[l].state = "WAITING"
  /\ <<l, u>> \notin lobby_players
  /\ Cardinality(LobbyRows(l)) < getMaxPlayers

(* LobbyService.joinLobby, run to completion. *)
JoinLobby(l, u) ==
  /\ BagCardinality(ledger) < MaxLedger
  /\ IF ~JoinAdmissible(l, u)
       THEN /\ ret' = Result("joinLobby", FALSE)
            /\ UNCHANGED <<wallets, ledger, lobby_players>>
       ELSE LET locked == lockEscrow(DB, u, lobbies[l].buy_in_cents, l)
            IN IF ~locked.ok
                 THEN /\ ret' = Result("joinLobby", FALSE)
                      /\ UNCHANGED <<wallets, ledger, lobby_players>>
                 ELSE /\ wallets' = locked.w
                      /\ ledger' = locked.lg
                      /\ lobby_players' = lobby_players \cup {<<l, u>>}
                      /\ ret' = Result("joinLobby", TRUE)
  /\ UNCHANGED <<kyc, lobbies, matches, match_players, house_user>>
  /\ UNCHANGED <<gsVars, simVars, concVars>>

(* LobbyService.joinLobby when the handler dies (process crash, lost      *)
(* connection, failing INSERT) after walletService.lockEscrow returned:   *)
(* the lobby transaction rolls back, the wallet transaction has committed.*)
JoinLobbyFail(l, u) ==
  /\ BagCardinality(ledger) < MaxLedger
  /\ JoinAdmissible(l, u)
  /\ LET locked == lockEscrow(DB, u, lobbies[l].buy_in_cents, l)
     IN /\ locked.ok
        /\ wallets' = locked.w
        /\ ledger' = locked.lg
  /\ ret' = Result("joinLobby", FALSE)
  /\ UNCHANGED <<kyc, lobbies, lobby_players, matches, match_players, house_user>>
  /\ UNCHANGED <<gsVars, simVars, concVars>>

(* LobbyService.leaveLobby *)
LeaveLobby(l, u) ==
  /\ IF l \notin DOMAIN lobbies \/ lobbies[l].state # "WAITING"
       THEN /\ ret' = Result("leaveLobby", FALSE)
            /\ UNCHANGED <<wallets, ledger, lobby_players>>
       ELSE LET refunded == refundEscrow(DB, u, lobbies[l].buy_in_cents, l)
            IN IF ~refunded.ok
                 THEN /\ ret' = Result("leaveLobby", FALSE)
                      /\ UNCHANGED <<wallets, ledger, lobby_players>>
                 ELSE /\ wallets' = refunded.w
                      /\ ledger' = refunded.lg
                      /\ lobby_players' = lobby_players \ {<<l, u>>}
                      /\ ret' = Result("leaveLobby", TRUE)
  /\ UNCHANGED <<kyc, lobbies, matches, match_players, house_user>>
  /\ UNCHANGED <<gsVars, simVars, concVars>>

(* LobbyService.leaveLobby when the handler dies (process crash, lost      *)
(* connection, failing COMMIT) after walletService.refundEscrow returned:  *)
(* the DELETE of the membership rolls back with the lobby transaction, the *)
(* refund has committed in the wallet transaction.                         *)
LeaveLobbyFail(l, u) ==
  /\ l \in DOMAIN lobbies
  /\ lobbies[l].state = "WAITING"
  /\ LET refunded == refundEscrow(DB, u, lobbies[l].buy_in_cents, l)
     IN /\ refunded.ok
        /\ wallets' = refunded.w
        /\ ledger' = refunded.lg
  /\ ret' = Result("leaveLobby", FALSE)
  /\ UNCHANGED <<kyc, lobbies, lobby_players, matches, match_players, house_user>>
  /\ UNCHANGED <<gsVars, simVars, concVars>>

(* Pot and rake of LobbyService.startMatch:                               *)
(*   Math.min(Math.floor(pot * rake_bps / 10000), rake_cap_cents || Infinity) *)
StartPot(lobby, n) == lobby.buy_in_cents * n

StartRake(lobby, n) ==
  LET raw == (StartPot(lobby, n) * lobby.rake_bps) \div BPS_DENOM
  IN IF lobby.rake_cap_cents = NULL \/ lobby.rake_cap_cents = 0
       THEN raw
       ELSE Min(raw, lobby.rake_cap_cents)

(* ProvablyFairService.createCommit: SHA-256 of the concatenation seed +  *)
(* nonce, taken as collision-free: the digest stands for its input.       *)
createCommit(seed, nonce) == seed \o nonce

(* ProvablyFairService.generateCommitment: random seed and nonce (hex     *)
(* strings of fixed length, here one symbol each) and their commit.       *)
generateCommitment ==
  { [seed |-> <<sd>>, nonce |-> <<100 + n>>, commit |-> createCommit(<<sd>>, <<100 + n>>)] :
      sd \in 1..NumSeeds, n \in 1..NumNonces }

(* LobbyService.startMatch *)
StartMatch(l) ==
  /\ Len(matches) < MaxMatches
  /\ IF l \notin DOMAIN lobbies \/ LobbyRows(l) = {}
       THEN /\ ret' = Result("startMatch", FALSE)
            /\ UNCHANGED <<lobbies, matches>>
       ELSE LET n    == Cardinality(LobbyRows(l))
                pot  == StartPot(lobbies[l], n)
                rake == StartRake(lobbies[l], n)
            IN /\ \E c \in generateCommitment :
                 matches' = Append(matches, [lobby_id      |-> l,
                                              seed          |-> c.seed,
                                              nonce         |-> c.nonce,
                                              commit        |-> c.commit,
                                              payout_model  |-> lobbies[l].payout_model,
                                              rake_bps      |-> lobbies[l].rake_bps,
                                              pot_cents     |-> pot,
                                              rake_cents    |-> rake,
                                              net_pot_cents |-> pot - rake,
                                              ended_at      |-> FALSE])
               /\ lobbies' = [lobbies EXCEPT ![l].state = "ACTIVE"]
               /\ ret' = Result("startMatch", TRUE)
  /\ UNCHANGED <<wallets, kyc, ledger, lobby_players, match_players, house_user>>
  /\ UNCHANGED <<gsVars, simVars, concVars>>

(* --------------------------- IEEE doubles ----------------------------- *)

(* Integers of any size, for the arithmetic on IEEE doubles (the quotient *)
(* of the proportional payout, the square root and the product of        *)
(* canEat): sequences of digits to the base LIMB, the lowest digit first. *)
LIMB_BITS == 15
LIMB == 32768

RECURSIVE Limbs(_)
Limbs(k) == IF k = 0 THEN <<>> ELSE <<k % LIMB>> \o Limbs(k \div LIMB)

RECURSIVE Trim(_)
Trim(a) == IF a = <<>> \/ a[Len(a)] # 0 THEN a ELSE Trim(SubSeq(a, 1, Len(a) - 1))

Limb(a) == IF a = <<>> THEN 0 ELSE Head(a)
Rest(a) == IF a = <<>> THEN <<>> ELSE Tail(a)

(* a + b + c *)
RECURSIVE BigAdd(_, _, _)
BigAdd(a, b, c) ==
  IF a = <<>> /\ b = <<>> THEN Limbs(c)
  ELSE <<(Limb(a) + Limb(b) + c) % LIMB>>
         \o BigAdd(Rest(a), Rest(b), (Limb(a) + Limb(b) + c) \div LIMB)

(* a - b - c, for a >= b + c *)
RECURSIVE BigSub(_, _, _)
BigSub(a, b, c) ==
  IF a = <<>> THEN <<>>
  ELSE <<(Head(a) - Limb(b) - c) % LIMB>>
         \o BigSub(Tail(a), Rest(b), IF Head(a) - Limb(b) - c < 0 THEN 1 ELSE 0)

(* a * k + c for a digit k *)
RECURSIVE BigMulSmall(_, _, _)
BigMulSmall(a, k, c) ==
  IF a = <<>> THEN Limbs(c)
  ELSE <<(Head(a) * k + c) % LIMB>> \o BigMulSmall(Tail(a), k, (Head(a) * k + c) \div LIMB)

RECURSIVE BigMul(_, _)
BigMul(a, b) ==
  IF b = <<>> THEN <<>>
  ELSE BigAdd(BigMulSmall(a, Head(b), 0), <<0>> \o BigMul(a, Tail(b)), 0)

(* <<a \div k, a % k>> for a digit k *)
RECURSIVE BigDivRem(_, _)
BigDivRem(a, k) ==
  IF a = <<>> THEN <<<<>>, 0>>
  ELSE LET hi  == BigDivRem(Tail(a), k)
           cur == hi[2] * LIMB + Head(a)
       IN  <<<<cur \div k>> \o hi[1], cur % k>>

BigLess(a, b) ==
  LET x == Trim(a)
      y == Trim(b)
  IN  IF Len(x) # Len(y) THEN Len(x) < Len(y)
      ELSE \E i \in 1..Len(x) : x[i] < y[i] /\ \A k \in (i + 1)..Len(x) : x[k] = y[k]

(* a * 2^bits and a \div 2^bits *)
BigShl(a, bits) ==
  [i \in 1..(bits \div LIMB_BITS) |-> 0] \o BigMulSmall(a, 2^(bits % LIMB_BITS), 0)

BigShr(a, bits) ==
  BigDivRem(SubSeq(a, (bits \div LIMB_BITS) + 1, Len(a)), 2^(bits % LIMB_BITS))[1]

(* P / 2^sh rounded to the nearest integer, ties to the even one. *)
RoundShift(P, sh) ==
  LET q2 == BigShr(P, sh - 1)
      h  == BigDivRem(q2, 2)
      away == /\ h[2] = 1
              /\ \/ Trim(BigShl(q2, sh - 1)) # Trim(P)
                 \/ BigDivRem(h[1], 2)[2] = 1
  IN  IF away THEN BigAdd(h[1], <<1>>, 0) ELSE h[1]

(* The integer of a sequence of digits. *)
RECURSIVE BigToInt(_)
BigToInt(a) == IF a = <<>> THEN 0 ELSE Head(a) + LIMB * BigToInt(Tail(a))

(* The least e >= from with a * 2^e >= b, for 0 < a <= b. *)
RECURSIVE QuotientShift(_, _, _)
QuotientShift(a, b, from) == IF a * 2^from >= b THEN from ELSE QuotientShift(a, b, from + 1)

(* a / b on doubles, for integers 0 < a <= b < LIMB: the pair <<q, s>>     *)
(* stands for the double q * 2^-s, 2^52 <= q <= 2^53, the quotient rounded *)
(* to 53 bits, ties to the even neighbour.                                 *)
FloatDiv(a, b) ==
  LET s  == 52 + QuotientShift(a, b, 0)
      d  == BigDivRem(BigShl(Limbs(a), s), b)
      away == 2 * d[2] > b \/ (2 * d[2] = b /\ Limb(d[1]) % 2 = 1)
  IN  <<IF away THEN BigAdd(d[1], <<1>>, 0) ELSE d[1], s>>

(* The least sh >= from with P < 2^(53 + sh). *)
RECURSIVE ExcessBits(_, _)
ExcessBits(P, from) ==
  IF BigLess(P, BigShl(<<1>>, 53 + from)) THEN from ELSE ExcessBits(P, from + 1)

(* Math.floor(x * n) for the double x = <<q, s>> and an integer n >= 0:    *)
(* the product is rounded to 53 bits before the floor.                     *)
FloorOfProduct(x, n) ==
  LET P  == BigMul(x[1], Limbs(n))
      sh == ExcessBits(P, 0)
      R  == IF sh = 0 THEN P ELSE RoundShift(P, sh)
  IN  BigToInt(BigShr(R, x[2] - sh))

(* Math.floor((finalMass / totalMass) * netPot) for integer masses         *)
(* 0 <= finalMass <= totalMass, 0 < totalMass: both operations round to    *)
(* the nearest double, so that 7 / 10 * 90 is 62.99999999999999 and its    *)
(* floor 62.                                                               *)
ProportionalPayout(finalMass, totalMass, netPot) ==
  IF finalMass = 0 THEN 0 ELSE FloorOfProduct(FloatDiv(finalMass, totalMass), netPot)

(* ------------------------ Match.calculateResults ---------------------- *)

(* Array.prototype.sort with (a, b) => b.finalMass - a.finalMass is       *)
(* stable: players of equal mass keep the order of the match config.      *)
RECURSIVE InsertByMass(_, _)
InsertByMass(sorted, p) ==
  IF sorted = <<>> THEN <<p>>
  ELSE IF Head(sorted).finalMass >= p.finalMass
         THEN <<Head(sorted)>> \o InsertByMass(Tail(sorted), p)
         ELSE <<p>> \o sorted

RECURSIVE SortByMassDesc(_)
SortByMassDesc(ps) ==
  IF ps = <<>> THEN <<>>
  ELSE InsertByMass(SortByMassDesc(SubSeq(ps, 1, Len(ps) - 1)), ps[Len(ps)])

(* Math.min(Math.floor(pot * rakeBps / 10000), rakeCapCents): a null cap  *)
(* read from the lobby row converts to the number 0.                      *)
GameRake(cfg, n) ==
  LET raw == (cfg.buyInCents * n * cfg.rakeBps) \div BPS_DENOM
  IN Min(raw, IF cfg.rakeCapCents = NULL THEN 0 ELSE cfg.rakeCapCents)

(* The payout of rank i (1-based) among the sorted players.  The products *)
(* with 0.65, 0.25 and 0.1 are IEEE doubles in the code: the doubles 0.65  *)
(* and 0.1 lie above the fractions and 0.25 is exact, so a product is      *)
(* never rounded below an integer and its floor is the integer quotient.   *)
(* The proportional payout is computed on the doubles; the sum of integer  *)
(* masses is exact.                                                        *)
Payout(model, netPot, sorted, i) ==
  CASE model = "WINNER_TAKE_ALL" -> IF i = 1 THEN netPot ELSE 0
    [] model = "TOP_3_LADDER" ->
         IF i = 1 THEN (netPot * 65) \div 100
         ELSE IF i = 2 THEN (netPot * 25) \div 100
         ELSE IF i = 3 THEN (netPot * 10) \div 100
         ELSE 0
    [] model = "PROPORTIONAL" ->
         LET totalMass == SumSeq([k \in 1..Len(sorted) |-> sorted[k].finalMass])
         IN IF totalMass > 0 THEN ProportionalPayout(sorted[i].finalMass, totalMass, netPot)
            ELSE 0

(* Match.calculateResults for a match config cfg whose players, in config *)
(* order, ended with the masses given in players.                         *)
calculateResults(cfg, players) ==
  LET sortedPlayers == SortByMassDesc(players)
      pot    == cfg.buyInCents * Len(players)
      rake   == GameRake(cfg, Len(players))
      netPot == pot - rake
  IN [i \in 1..Len(sortedPlayers) |->
        [userId      |-> sortedPlayers[i].userId,
         placement   |-> i,
         finalMass   |-> sortedPlayers[i].finalMass,
         payoutCents |-> Payout(cfg.payoutModel, netPot, sortedPlayers, i)]]

(* The MatchConfig the game server is given for a match of lobby l.       *)
MatchConfig(l) ==
  [buyInCents   |-> lobbies[l].buy_in_cents,
   payoutModel  |-> lobbies[l].payout_model,
   rakeBps      |-> lobbies[l].rake_bps,
   rakeCapCents |-> lobbies[l].rake_cap_cents]

FinalPlayers(order, masses) ==
  [i \in 1..Len(order) |-> [userId |-> order[i], finalMass |-> masses[order[i]]]]

(* ------------------------- SettlementService -------------------------- *)

MatchPlayerRows(m, results) ==
  { [match_id |-> m, user_id |-> results[i].userId, placement |-> results[i].placement,
     final_mass |-> results[i].finalMass, payout_cents |-> results[i].payoutCents]
    : i \in 1..Len(results) }

AlreadySettledMutant(m) == FALSE

(* The ended_at guard of SettlementService.settleMatch. *)
AlreadySettled(m) == matches[m].ended_at

(* match_players PRIMARY KEY (match_id, user_id): the INSERT of a result  *)
(* row for a player who already has one aborts the transaction.           *)
DuplicateResult(m, results) ==
  \E i \in 1..Len(results) : \E r \in match_players :
    r.match_id = m /\ r.user_id = results[i].userId

(* SettlementService.settleMatch with the results the game server         *)
(* computes for the final masses; order is the player order of the match  *)
(* config.                                                                *)
SettleMatch(m, order, masses, seed, nonce) ==
  /\ IF m \notin DOMAIN matches
       THEN /\ ret' = Result("settleMatch", FALSE)
            /\ UNCHANGED <<wallets, ledger, lobbies, matches, match_players>>
       ELSE IF AlreadySettled(m)
         THEN /\ ret' = Result("settleMatch", FALSE)
              /\ UNCHANGED <<wallets, ledger, lobbies, matches, match_players>>
         ELSE LET l       == matches[m].lobby_id
                  results == calculateResults(MatchConfig(l), FinalPlayers(order, masses))
                  paid    == walletSettleMatch(DB, m, results, matches[m].rake_cents)
              IN IF DuplicateResult(m, results) \/ ~paid.ok
                   THEN /\ ret' = Result("settleMatch", FALSE)
                        /\ UNCHANGED <<wallets, ledger, lobbies, matches, match_players>>
                   ELSE /\ match_players' = match_players \cup MatchPlayerRows(m, results)
                        /\ matches' = [matches EXCEPT ![m].ended_at = TRUE,
                                                      ![m].seed = seed,
                                                      ![m].nonce = nonce]
                        /\ lobbies' = [lobbies EXCEPT ![l].state = "COMPLETED"]
                        /\ wallets' = paid.w
                        /\ ledger' = paid.lg
                        /\ ret' = Result("settleMatch", TRUE)
  /\ UNCHANGED <<kyc, lobby_players, house_user>>
  /\ UNCHANGED <<gsVars, simVars, concVars>>

(* SettlementService.settleMatch when the handler dies (process crash,    *)
(* lost connection, failing updatePlayerMMR or COMMIT) after              *)
(* walletService.settleMatch returned: the settlement transaction rolls   *)
(* back, the wallet transaction has committed.                            *)
SettleMatchFail(m, order, masses) ==
  /\ BagCardinality(ledger) < MaxLedger
  /\ m \in DOMAIN matches
  /\ ~AlreadySettled(m)
  /\ LET l       == matches[m].lobby_id
         results == calculateResults(MatchConfig(l), FinalPlayers(order, masses))
         paid    == walletSettleMatch(DB, m, results, matches[m].rake_cents)
     IN /\ ~DuplicateResult(m, results)
        /\ paid.ok
        /\ wallets' = paid.w
        /\ ledger' = paid.lg
  /\ ret' = Result("settleMatch", FALSE)
  /\ UNCHANGED <<kyc, lobbies, lobby_players, matches, match_players, house_user>>
  /\ UNCHANGED <<gsVars, simVars, concVars>>

(* SettlementService.getMatchResults: the reply carries the seed, nonce   *)
(* and commit columns of the match row, whatever ended_at is.            *)
GetMatchResults(m) ==
  /\ IF m \notin DOMAIN matches
       THEN ret' = Result("getMatchResults", FALSE)
       ELSE ret' = [op |-> "getMatchResults", ok |-> TRUE,
                    commit  |-> matches[m].commit,
                    seed    |-> matches[m].seed,
                    nonce   |-> matches[m].nonce,
                    endedAt |-> matches[m].ended_at]
  /\ UNCHANGED <<wallets, kyc, ledger, lobbies, lobby_players, matches, match_players, house_user>>
  /\ UNCHANGED <<gsVars, simVars, concVars>>

(* ---------------------------- game server ----------------------------- *)
COUNTDOWN_MS == 10000
NORMAL_PHASE_MS == 270000
MATCH_DURATION_MS == 360000

MaxNow == 380000
MaxCrashes == 1
TimeSteps == {10000, 90000, 270000}

(* The bounds of the game server: Match objects created per process life, *)
(* and the values at which the counts of RESULT messages and of pending    *)
(* clean-up timers stop growing (the largest stands for itself or more).   *)
MaxCreates == 2
MaxResults == 2
MaxTimers == 2

(* The most players of a match the game server is asked to create. *)
MaxRoomPlayers == 2

(* Match ids the game server is called with. *)
GsIds == 1..MaxMatches

(* Map.set and Map.delete *)
Put(f, k, v) == [x \in DOMAIN f \cup {k} |-> IF x = k THEN v ELSE f[x]]
Drop(f, k) == [x \in DOMAIN f \ {k} |-> f[x]]

(* createMatch for a config of n players: new Match(config),               *)
(* activeMatches.set, startCountdown, setInterval, matchIntervals.set.     *)
(* Nothing looks at the maps or at the matches table first: a match id     *)
(* that is already in memory gets a new Match object and a new interval    *)
(* in both maps, and the interval of the old object, which no map holds    *)
(* any more, keeps running.  The object and its interval are entry         *)
(* Len(heap) + 1 of heap.  Of every player the object keeps whether        *)
(* inputAxes is an object (the constructor sets {x: 0, y: 0}) and          *)
(* isDead; positions and masses are those of the game of SpecGame and are  *)
(* left out here.                                                          *)
CreateMatch(m, n) ==
  /\ up
  /\ Len(heap) < MaxCreates
  /\ heap' = Append(heap, [id |-> m, state |-> "COUNTDOWN", countdownStartTime |-> now,
                           startTime |-> 0, interval |-> TRUE,
                           players |-> [i \in 1..n |-> [hasAxes |-> TRUE, isDead |-> FALSE]]])
  /\ activeMatches' = Put(activeMatches, m, Len(heap) + 1)
  /\ matchIntervals' = Put(matchIntervals, m, Len(heap) + 1)
  /\ UNCHANGED <<up, now, cleanupTimers, resultSent, crashedMatches, crashes>>
  /\ UNCHANGED <<dbVars, simVars, concVars>>

(* The clock of the game server advances.  Only a running game loop      *)
(* reads it, so time is counted while one runs.                           *)
Advance(dt) ==
  /\ \E o \in DOMAIN heap : heap[o].interval
  /\ now + dt <= MaxNow
  /\ now' = now + dt
  /\ UNCHANGED <<up, heap, activeMatches, matchIntervals, cleanupTimers, resultSent, crashedMatches, crashes>>
  /\ UNCHANGED <<dbVars, simVars, concVars>>

(* The state transitions of Match.update at time t. *)
update(g, t) ==
  IF g.state = "COUNTDOWN"
    THEN IF t - g.countdownStartTime >= COUNTDOWN_MS
           THEN [g EXCEPT !.state = "ACTIVE", !.startTime = t]
           ELSE g
    ELSE LET g1 == IF g.state = "ACTIVE" /\ t - g.startTime >= NORMAL_PHASE_MS
                     THEN [g EXCEPT !.state = "SUDDEN_SHRINK"]
                     ELSE g
         IN IF g1.state = "SUDDEN_SHRINK" /\ t - g1.startTime >= MATCH_DURATION_MS
              THEN [g1 EXCEPT !.state = "SETTLEMENT"]
              ELSE g1

(* endMatch(matchId), called with the heap h the callback leaves: nothing  *)
(* happens when activeMatches has no such id; otherwise the interval that  *)
(* matchIntervals holds for the id is cleared and deleted from the map,    *)
(* the RESULT message is emitted and a clean-up timer is set.  endMatch    *)
(* calls no settlement service.                                            *)
endMatch(m, h) ==
  IF m \notin DOMAIN activeMatches
    THEN /\ heap' = h
         /\ UNCHANGED <<matchIntervals, resultSent, cleanupTimers>>
    ELSE /\ heap' = IF m \in DOMAIN matchIntervals
                      THEN [h EXCEPT ![matchIntervals[m]].interval = FALSE]
                      ELSE h
         /\ matchIntervals' = Drop(matchIntervals, m)
         /\ resultSent' = [resultSent EXCEPT ![m] = Min(@ + 1, MaxResults)]
         /\ cleanupTimers' = [cleanupTimers EXCEPT ![m] = Min(@ + 1, MaxTimers)]

(* socket.on('input') on the socket of player i of Match object o, which  *)
(* the socket found in activeMatches when it connected: updatePlayerInput  *)
(* stores data.axes unchecked on that player, dead or alive, an object     *)
(* (hasAxes) or undefined.                                                 *)
SocketInput(o, i, hasAxes) ==
  /\ up
  /\ o \in DOMAIN heap
  /\ i \in DOMAIN heap[o].players
  /\ heap' = [heap EXCEPT ![o].players[i].hasAxes = hasAxes]
  /\ UNCHANGED <<up, now, activeMatches, matchIntervals, cleanupTimers, resultSent, crashedMatches, crashes>>
  /\ UNCHANGED <<dbVars, simVars, concVars>>

(* Match.update of object old, which left the state of g, reaches the      *)
(* physics: not in COUNTDOWN and not in the call that ends the match.      *)
physicsReached(old, g) ==
  /\ old.state # "COUNTDOWN"
  /\ g.state = "SETTLEMENT" => old.state = "SETTLEMENT"

(* The first player of the player loop at whom updatePlayer throws: it     *)
(* returns at once for a dead player and reads inputAxes.x of a living     *)
(* one.  0 when there is none.                                             *)
firstThrower(ps) ==
  IF \E i \in DOMAIN ps : ~ps[i].isDead /\ ~ps[i].hasAxes
    THEN CHOOSE i \in DOMAIN ps :
           /\ ~ps[i].isDead /\ ~ps[i].hasAxes
           /\ \A j \in 1..(i - 1) : ps[j].isDead \/ ps[j].hasAxes
    ELSE 0

(* Match.update of object old, which left the state of g, throws. *)
updateThrows(old, g) == physicsReached(old, g) /\ firstThrower(old.players) # 0

(* The players the physics of this update may leave dead.  Fog damage      *)
(* (in SUDDEN_SHRINK only) kills a player in its turn of the player loop,  *)
(* which stops at the player that throws; the collision loop, reached      *)
(* when nothing threw, kills players that a living player eats, so one of  *)
(* the living survives it.  Who dies depends on the positions and masses.  *)
mayDie(old, g, dies) ==
  LET living == { i \in DOMAIN old.players : ~old.players[i].isDead }
      thrower == firstThrower(old.players)
  IN  /\ dies \subseteq living
      /\ ~physicsReached(old, g) => dies = {}
      /\ thrower # 0 => /\ g.state = "SUDDEN_SHRINK" \/ dies = {}
                        /\ \A i \in dies : i < thrower
      /\ (thrower = 0 /\ g.state # "SUDDEN_SHRINK" /\ living # {}) => dies # living

(* One run of the setInterval callback that createMatch set for Match      *)
(* object o: match.update(), which leaves the players in dies dead, the    *)
(* snapshot broadcast and, when the object is in SETTLEMENT, endMatch      *)
(* with the object's match id.  When update throws, after its state        *)
(* transitions, the catch logs the error and the callback ends without     *)
(* snapshot and without endMatch.                                          *)
GameLoopTick(o, dies) ==
  /\ up
  /\ o \in DOMAIN heap
  /\ heap[o].interval
  /\ LET t == update(heap[o], now)
         g == [t EXCEPT !.players = [i \in DOMAIN @ |-> [@[i] EXCEPT !.isDead = @ \/ i \in dies]]]
     IN /\ mayDie(heap[o], t, dies)
        /\ IF g.state = "SETTLEMENT" /\ ~updateThrows(heap[o], g)
             THEN endMatch(g.id, [heap EXCEPT ![o] = g])
             ELSE /\ heap' = [heap EXCEPT ![o] = g]
                  /\ UNCHANGED <<matchIntervals, resultSent, cleanupTimers>>
  /\ UNCHANGED <<up, now, activeMatches, crashedMatches, crashes>>
  /\ UNCHANGED <<dbVars, simVars, concVars>>

(* The callback of the interval of object o, whatever the physics do. *)
GameLoop(o) == \E dies \in SUBSET (1..MaxRoomPlayers) : GameLoopTick(o, dies)

(* A setTimeout callback of endMatch fires: activeMatches.delete, whatever *)
(* object the map holds for the id by now.  A count of MaxTimers stands    *)
(* for that many timers or more.                                           *)
Cleanup(m) ==
  /\ up
  /\ cleanupTimers[m] > 0
  /\ \/ cleanupTimers' = [cleanupTimers EXCEPT ![m] = @ - 1]
     \/ cleanupTimers[m] = MaxTimers /\ UNCHANGED cleanupTimers
  /\ activeMatches' = Drop(activeMatches, m)
  /\ UNCHANGED <<up, now, heap, matchIntervals, resultSent, crashedMatches, crashes>>
  /\ UNCHANGED <<dbVars, simVars, concVars>>

(* The game-server process dies: the module-level maps, the Match objects *)
(* and the timers are lost.  The database keeps what was committed, the    *)
(* sessions the messages they received.                                    *)
Crash ==
  /\ up
  /\ crashes < MaxCrashes
  /\ crashes' = crashes + 1
  /\ up' = FALSE
  /\ crashedMatches' = crashedMatches \cup DOMAIN activeMatches
  /\ heap' = <<>>
  /\ activeMatches' = <<>>
  /\ matchIntervals' = <<>>
  /\ cleanupTimers' = [m \in GsIds |-> 0]
  /\ UNCHANGED <<now, resultSent>>
  /\ UNCHANGED <<dbVars, simVars, concVars>>

(* The process starts again: empty maps, httpServer.listen.  Nothing      *)
(* reads the matches table.                                               *)
Start ==
  /\ ~up
  /\ up' = TRUE
  /\ UNCHANGED <<now, heap, activeMatches, matchIntervals, cleanupTimers, resultSent, crashedMatches, crashes>>
  /\ UNCHANGED <<dbVars, simVars, concVars>>

(* ---------------- seeded RNG and Match construction -------------------- *)

(* Seeds are strings, modelled as the sequence of their char codes: the   *)
(* hex strings "a3f1" and "07c2".                                          *)
RngSeeds == { <<97, 51, 102, 49>>, <<48, 55, 99, 50>> }

(* The string ':pellets'. *)
PelletsSuffix == <<58, 112, 101, 108, 108, 101, 116, 115>>

MapRadii == {1000, 2000}

(* GAME_CONFIG.GROWTH_CAP_MULTIPLIER *)
GROWTH_CAP_MULTIPLIER == 5

(* The MatchConfig fields the constructor of Match reads: matchId,         *)
(* buyInCents (for the growth cap), seed, the ordered players and          *)
(* mapRadius.                                                              *)
SimConfigs ==
  { [matchId |-> v[1], buyInCents |-> v[2], seed |-> sd, players |-> ps, mapRadius |-> r] :
      v \in {<<1, 1>>, <<2, 2>>}, sd \in RngSeeds, ps \in {<<1>>, <<1, 2>>, <<2, 1>>},
      r \in MapRadii }

PELLET_COUNT == 500
LCG_MULTIPLIER == 1664525
LCG_INCREMENT == 1013904223
HALF == 65536

(* An unsigned 32-bit number is the pair <<hi, lo>> of its 16-bit halves.  *)
(* (w * k + c) % 4294967296 for k whose halves are below 32768, so that no *)
(* product leaves the range of the checker's integers.  The doubles of the *)
(* code hold state * 1664525 + 1013904223 < 2^53 exactly.                  *)
MulAdd32(w, k, c) ==
  LET kh == k \div HALF
      kl == k % HALF
      ch == c \div HALF
      cl == c % HALF
      p0 == w[2] * kl
      s0 == (p0 % HALF) + cl
  IN  << ((p0 \div HALF) + ((w[1] * kl) % HALF) + ((w[2] * kh) % HALF) + ch + (s0 \div HALF)) % HALF,
         s0 % HALF >>

(* Math.abs of the signed 32-bit reading of w. *)
Abs32(w) ==
  IF w[1] < 32768 THEN w
  ELSE << (HALF - w[1] - (IF w[2] = 0 THEN 0 ELSE 1)) % HALF, (HALF - w[2]) % HALF >>

(* The loop of Match.seedToNumber: hash = ((hash << 5) - hash + c) | 0.    *)
RECURSIVE StringHash(_, _)
StringHash(h, str) ==
  IF str = <<>> THEN h ELSE StringHash(MulAdd32(h, 31, Head(str)), Tail(str))

(* Match.seedToNumber *)
Match_seedToNumber(seed) == Abs32(StringHash(<<0, 0>>, seed))

(* createHash('sha256').update(str).digest().readUInt32BE(0): the first    *)
(* four bytes of the SHA-256 digest of the strings the model hashes.       *)
Sha256Head(str) ==
  CASE str = <<97, 51, 102, 49>>                  -> <<65229, 40555>>
    [] str = <<97, 51, 102, 49>> \o PelletsSuffix -> <<21410, 31704>>
    [] str = <<48, 55, 99, 50>>                   -> <<49791, 34625>>
    [] str = <<48, 55, 99, 50>> \o PelletsSuffix  -> <<59325, 37011>>

(* ProvablyFairService.seedToNumber *)
ProvablyFair_seedToNumber(seed) == Sha256Head(seed)

(* The closure of createSeededRNG (the same in Match and in                *)
(* ProvablyFairService): one call of next().  The value returned,          *)
(* state / 4294967296, stands in one-to-one relation with the state.       *)
NextState(state) == MulAdd32(state, LCG_MULTIPLIER, LCG_INCREMENT)

(* n calls of randomPointInCircle(radius) on an RNG in the given state.    *)
(* A point is x = cos(2 pi a) r, y = sin(2 pi a) r with a the first draw   *)
(* and r = sqrt(second draw) * radius; it is kept as the two draws and     *)
(* the radius (in tenths) it is computed from.  The calls are made one     *)
(* after the other: the second half of the points starts from the state    *)
(* the first half leaves, that of its last draw.                           *)
RECURSIVE randomPointsInCircle(_, _, _)
randomPointsInCircle(state, n, radius10) ==
  IF n = 0 THEN <<>>
  ELSE IF n = 1
  THEN <<[angle |-> NextState(state), dist |-> NextState(NextState(state)), radius10 |-> radius10]>>
  ELSE LET h == n \div 2
           first == randomPointsInCircle(state, h, radius10)
       IN  first \o randomPointsInCircle(first[h].dist, n - h, radius10)

(* Match.initializePlayers: a fresh RNG from config.seed, one point within *)
(* mapRadius * 0.7 per player, in the order of config.players.            *)
initializePlayersMutant(cfg) ==
  randomPointsInCircle(Match_seedToNumber(cfg.seed \o <<48 + cfg.matchId>>),
                       Len(cfg.players), cfg.mapRadius * 7)
initializePlayers(cfg) ==
  randomPointsInCircle(Match_seedToNumber(cfg.seed), Len(cfg.players), cfg.mapRadius * 7)

(* Match.initializePellets: another fresh RNG from config.seed, 500 points *)
(* within mapRadius.                                                       *)
initializePellets(cfg) ==
  randomPointsInCircle(Match_seedToNumber(cfg.seed), PELLET_COUNT, cfg.mapRadius * 10)

NoSim == [constructed |-> FALSE]

(* new Match(config): the fields the constructor sets and the positions it *)
(* leaves.                                                                 *)
NewMatch(cfg) ==
  [constructed |-> TRUE, matchId |-> cfg.matchId, seed |-> cfg.seed, players |-> cfg.players,
   mapRadius |-> cfg.mapRadius, fogRadius |-> cfg.mapRadius,
   growthCap |-> cfg.buyInCents * GROWTH_CAP_MULTIPLIER,
   spawns |-> initializePlayers(cfg), pellets |-> initializePellets(cfg)]

(* The game server constructs a Match in slot i. *)
ConstructMatch(i, cfg) ==
  /\ ~sims[i].constructed
  /\ sims' = [sims EXCEPT ![i] = NewMatch(cfg)]
  /\ UNCHANGED <<dbVars, gsVars, concVars, game, sessions>>

(* ProvablyFairService.verifyCommitment *)
verifyCommitment(seed, nonce, commit) == createCommit(seed, nonce) = commit

(* ProvablyFairService.generateSpawnPositions *)
generateSpawnPositions(seed, playerCount, mapRadius) ==
  randomPointsInCircle(ProvablyFair_seedToNumber(seed), playerCount, mapRadius * 7)

(* ProvablyFairService.generatePelletPositions *)
generatePelletPositions(seed, count, mapRadius) ==
  randomPointsInCircle(ProvablyFair_seedToNumber(seed \o PelletsSuffix), count, mapRadius * 10)

(* ProvablyFairService.verifyMatch *)
verifyMatch(seed, nonce, commit, matchData) ==
  IF ~verifyCommitment(seed, nonce, commit)
  THEN [valid |-> FALSE, spawnPositions |-> <<>>, pelletPositions |-> <<>>]
  ELSE [valid |-> TRUE,
        spawnPositions  |-> generateSpawnPositions(seed, matchData.playerCount, matchData.mapRadius),
        pelletPositions |-> generatePelletPositions(seed, matchData.pelletCount, matchData.mapRadius)]

(* A player verifies the match simulated in slot i with the revealed seed  *)
(* and nonce and the match's player count, map radius and pellet count.    *)
VerifyMatch(i, nonce, commit) ==
  /\ sims[i].constructed
  /\ LET v == verifyMatch(sims[i].seed, nonce, commit,
                          [playerCount |-> Len(sims[i].players),
                           mapRadius   |-> sims[i].mapRadius,
                           pelletCount |-> Len(sims[i].pellets)])
     IN  ret' = [op |-> "verifyMatch", ok |-> v.valid, slot |-> i, reproduced |-> v]
  /\ UNCHANGED <<wallets, kyc, ledger, lobbies, lobby_players, matches, match_players, house_user>>
  /\ UNCHANGED <<gsVars, simVars, concVars>>

(* ------------------------ Match physics per tick ---------------------- *)
INITIAL_PLAYER_MASS == 10
PELLET_MASS == 1
TICK_RATE == 30
FOG_DAMAGE_RATE == 5
COLLISION_RATIO_PCT == 115

(* Masses are IEEE doubles.  The pair <<n, e>> stands for the double       *)
(* (n * 2^54 + e) / (3 * 2^55): n counts sixths of a unit of mass          *)
(* (MassScale of them make one unit) and the small integer e is the        *)
(* distance of the double from n / 6, in units of 2^-55 / 3.  Every double *)
(* that is a multiple of 2^-55 has one such pair (n + e is a multiple of   *)
(* 3), and the order of the doubles is the lexicographic order of the      *)
(* pairs.                                                                  *)
MassScale == TICK_RATE \div FOG_DAMAGE_RATE

(* The double of the integer k. *)
Mass(k) == <<k * MassScale, 0>>

MassLess(a, b) == a[1] < b[1] \/ (a[1] = b[1] /\ a[2] < b[2])

(* Math.min *)
MassMin(a, b) == IF MassLess(b, a) THEN b ELSE a

(* The distance between neighbouring doubles at x >= 0, in units of 2^-55: *)
(* 2^(k + 3) for 2^k <= x < 2^(k + 1), and at most 1 below 1/4.  The value *)
(* is <<u, g>> for the distance u, with g = 1 when u is an even power of   *)
(* two and g = 2 when it is an odd one.                                    *)
RECURSIVE UlpFrom(_, _, _, _)
UlpFrom(x, t, u, g) ==
  IF MassLess(x, <<2 * t, 0>>) THEN <<u, g>> ELSE UlpFrom(x, 2 * t, 2 * u, 3 - g)

Ulp(x) ==
  IF x[1] < 2 THEN <<1, 1>> ELSE IF MassLess(x, <<3, 0>>) THEN <<2, 2>> ELSE UlpFrom(x, 3, 4, 1)

(* N % u for the integer N = (n * 2^54 + e) / 3 of the pair x and a power  *)
(* of two u: 2^54 % (3 * u) is u for an even power (g = 1) and 2 * u for   *)
(* an odd one (g = 2).                                                     *)
Residue(x, u, g) == ((u * ((x[1] * g) % 3) + x[2]) % (3 * u)) \div 3

(* The double nearest to x at the distance u between doubles, for the      *)
(* part r of x beyond the double below: ties go to the even neighbour.     *)
Nearest(x, u, g, r) ==
  IF 2 * r < u THEN <<x[1], x[2] - 3 * r>>
  ELSE IF 2 * r > u \/ Residue(x, 2 * u, 3 - g) # r THEN <<x[1], x[2] + 3 * (u - r)>>
  ELSE <<x[1], x[2] - 3 * r>>

RoundAt(x, ulp) == Nearest(x, ulp[1], ulp[2], Residue(x, ulp[1], ulp[2]))

(* The double nearest to the number x >= 0: the rounding of every          *)
(* arithmetic operation on doubles.                                        *)
FloatRound(x) == RoundAt(x, Ulp(x))

(* a + b on doubles *)
FloatAdd(a, b) == FloatRound(<<a[1] + b[1], a[2] + b[2]>>)

(* damageRate * deltaTime = 5.0 * (1 / 30): the double                     *)
(* 6004799503160661 * 2^-55, just below one sixth.                         *)
FogDamage == <<1, -1>>

(* 2 * N for the double x = N * 2^-55. *)
TwiceSignificand(x) ==
  LET t == BigShl(Limbs(x[1]), 54)
      s == IF x[2] >= 0 THEN BigAdd(t, Limbs(x[2]), 0) ELSE BigSub(t, Limbs(-x[2]), 0)
  IN  BigDivRem(BigMulSmall(s, 2, 0), 3)[1]

(* X * 4^k >= 2^106 for the least k, with j + k. *)
RECURSIVE Scale(_, _)
Scale(X, j) ==
  IF BigLess(X, BigShl(<<1>>, 106)) THEN Scale(BigMulSmall(X, 4, 0), j + 1) ELSE <<X, j>>

(* The integer square root of X < 2^108, bit by bit from bit b down. *)
RECURSIVE Isqrt(_, _, _)
Isqrt(X, R, b) ==
  IF b < 0 THEN R
  ELSE LET c == BigAdd(R, BigShl(<<1>>, b), 0)
       IN  IF BigLess(X, BigMul(c, c)) THEN Isqrt(X, R, b - 1) ELSE Isqrt(X, c, b - 1)

(* Math.sqrt(x) for a double x > 0, correctly rounded: the pair <<m, j>>   *)
(* stands for m * 2^(-27 - j), with 2^52 <= m <= 2^53.  The root of        *)
(* 2 * N * 4^j is taken to 54 bits and rounded to 53; it is never half way *)
(* between two doubles.                                                    *)
FloatSqrt(x) ==
  LET s == Scale(TwiceSignificand(x), 0)
      r == Isqrt(s[1], <<>>, 53)
  IN  <<BigDivRem(BigAdd(r, <<1>>, 0), 2)[1], s[2]>>

(* PhysicsEngine.massToRadius: MASS_TO_RADIUS_K * Math.sqrt(mass) with     *)
(* MASS_TO_RADIUS_K = 1.0.                                                 *)
massToRadius(mass) == FloatSqrt(mass)

(* GAME_CONFIG.COLLISION_SIZE_RATIO: the double 1.15 is                    *)
(* 5179139571476070 * 2^-52.                                               *)
COLLISION_SIZE_RATIO == <<26214, 19660, 6553, 147>>

(* massToRadius(a) > massToRadius(b) * 1.15, computed on the doubles: the  *)
(* product is rounded to 53 bits before the comparison.                    *)
FloatExceeds(a, b) ==
  LET ra == massToRadius(a)
      rb == massToRadius(b)
      P  == BigMul(rb[1], COLLISION_SIZE_RATIO)
      sh == IF BigLess(P, BigShl(<<1>>, 105)) THEN 52 ELSE 53
      q  == RoundShift(P, sh)
  IN  BigLess(BigShl(q, sh + ra[2]), BigShl(ra[1], 52 + rb[2]))

(* eater.radius > target.radius * COLLISION_SIZE_RATIO for the radii of   *)
(* the masses a and b.  The three roundings move the two sides by less    *)
(* than one part in 2^50, so the outcome is that of the exact comparison,  *)
(* 100^2 * a > 115^2 * b, unless the masses lie that close to the ratio:   *)
(* then it is computed on the doubles.                                     *)
RadiusExceeds(a, b) ==
  LET dn == 100 * 100 * a[1] - COLLISION_RATIO_PCT * COLLISION_RATIO_PCT * b[1]
      de == 100 * 100 * a[2] - COLLISION_RATIO_PCT * COLLISION_RATIO_PCT * b[2]
  IN  IF dn # 0 THEN dn > 0
      ELSE IF b[1] = 0 /\ de # 0 THEN de > 0
      ELSE IF b = <<0, 0>> THEN FALSE
      ELSE FloatExceeds(a, b)

GameBuyIns == 1..MaxBuyIn
EatCounts == {0, MaxEat}

(* player.inputAxes after an INPUT message whose axes are undefined or     *)
(* null.  player.boost is "true", "false" or, after a message without      *)
(* boost, "undefined".                                                     *)
NoAxes == <<>>

(* No Match object was created yet; the fields are those of the game       *)
(* server around the objects of the match id: the time, whether            *)
(* activeMatches holds an object (active), whether the interval of that    *)
(* object runs, the number of objects created, the earlier objects whose   *)
(* intervals still run, the clean-up timers set, and the messages emitted  *)
(* to the room of the match id.                                            *)
NoGame ==
  [running |-> FALSE, state |-> "NONE", players |-> <<>>, clock |-> 0,
   active |-> FALSE, interval |-> FALSE, created |-> 0, stale |-> <<>>, timers |-> 0,
   outbox |-> <<>>]

(* new Match(config) at time t for a config whose players have the team    *)
(* numbers teams: state COUNTDOWN, no event callback, growthCap =          *)
(* buyInCents * GROWTH_CAP_MULTIPLIER, every player starts with            *)
(* INITIAL_PLAYER_MASS and the radius of that mass, 500 pellets.  A radius *)
(* is kept as the mass it was computed from (radius2): player.radius is    *)
(* massToRadius(radius2).  inputAxes starts as { x: 0, y: 0 } and boost as *)
(* false.                                                                  *)
NewGame(buyInCents, teams, t) ==
  [running |-> TRUE, state |-> "COUNTDOWN", tick |-> 0, clock |-> t,
   countdownStartTime |-> 0, startTime |-> 0,
   buyInCents |-> buyInCents,
   growthCap |-> Mass(buyInCents * GROWTH_CAP_MULTIPLIER),
   players |-> [i \in 1..Len(teams) |->
                  [mass    |-> Mass(INITIAL_PLAYER_MASS),
                   radius2 |-> Mass(INITIAL_PLAYER_MASS),
                   teamNo  |-> teams[i],
                   isDead  |-> FALSE,
                   kills   |-> 0,
                   inputAxes |-> <<0, 0>>,
                   boost   |-> "false"]],
   pellets |-> PELLET_COUNT,
   listening |-> FALSE, emitted |-> <<>>, delivered |-> <<>>,
   active |-> FALSE, interval |-> FALSE, created |-> 0, stale |-> <<>>, timers |-> 0,
   outbox |-> <<>>]

(* A message to the room of the match: io.to(matchId).emit(type, ...). *)
Message(type, eventType, tick) == [type |-> type, eventType |-> eventType, tick |-> tick]

(* Match.emitEvent: every registered callback is called with the event;    *)
(* emitted lists the events the match emitted, delivered those a callback  *)
(* (the fan-out to the match's room) received.                             *)
emitEvent(g, eventType) ==
  [g EXCEPT !.emitted = Append(@, eventType),
            !.delivered = IF g.listening THEN Append(@, eventType) ELSE @,
            !.outbox = IF g.listening THEN Append(@, Message("event", eventType, g.tick)) ELSE @]

(* Match.startCountdown *)
startCountdown(g) ==
  emitEvent([g EXCEPT !.state = "COUNTDOWN", !.countdownStartTime = g.clock], "COUNTDOWN")

(* Match.onEvent *)
onEvent(g) == [g EXCEPT !.listening = TRUE]

(* An endMatch that emits END and leaves the state alone. *)
matchEndMatchMutant(g) == emitEvent(g, "END")

(* Match.endMatch *)
matchEndMatch(g) == emitEvent([g EXCEPT !.state = "SETTLEMENT"], "END")

(* updatePlayer throws for p: the player lives and has no inputAxes, whose *)
(* x is read.                                                              *)
Throws(p) == ~p.isDead /\ p.inputAxes = NoAxes

(* PhysicsEngine.updatePlayer, as far as mass, radius and the stored input *)
(* go: the radius follows the mass, then inputAxes is read, which ends the *)
(* call for a player without inputAxes, and a requested boost is consumed; *)
(* a boost of undefined is no request and stays.                           *)
updatePlayer(p) ==
  IF p.isDead THEN p
  ELSE IF Throws(p) THEN [p EXCEPT !.radius2 = p.mass]
  ELSE [p EXCEPT !.radius2 = p.mass, !.boost = IF @ = "true" THEN "false" ELSE @]

(* PhysicsEngine.applyFogDamage for a player outside the fog radius:       *)
(* mass = Math.max(0, mass - damageRate * deltaTime), dead at mass <= 0.   *)
applyFogDamage(p) ==
  IF p.isDead THEN p
  ELSE LET d == <<p.mass[1] - FogDamage[1], p.mass[2] - FogDamage[2]>>
           m == IF MassLess(d, <<0, 0>>) THEN <<0, 0>> ELSE FloatRound(d)
       IN  [p EXCEPT !.mass = m, !.isDead = ~MassLess(<<0, 0>>, m)]

(* PhysicsEngine.canEat: neither player is dead, they are not of the same  *)
(* team (team 0 is no team) and the eater's radius exceeds 1.15 times the  *)
(* target's.                                                               *)
canEat(eater, target) ==
  /\ ~(eater.isDead \/ target.isDead)
  /\ ~(eater.teamNo > 0 /\ eater.teamNo = target.teamNo)
  /\ RadiusExceeds(eater.radius2, target.radius2)

(* PhysicsEngine.eatPlayer once canEat and checkCollision hold. *)
eatPlayer(ps, e, t, growthCap) ==
  [ps EXCEPT ![e].mass = MassMin(FloatAdd(ps[e].mass, ps[t].mass), growthCap),
             ![e].kills = @ + 1,
             ![t].mass = <<0, 0>>, ![t].radius2 = <<0, 0>>, ![t].isDead = TRUE]

(* The pairs (i, j), i < j, in the order of the collision loops. *)
RECURSIVE PairsFrom(_, _, _)
PairsFrom(i, j, n) ==
  IF i >= n THEN <<>>
  ELSE IF j > n THEN PairsFrom(i + 1, i + 2, n)
  ELSE <<<<i, j>>>> \o PairsFrom(i, j + 1, n)

(* The players after a call of eatPlayer that left next of ps, with the    *)
(* KILL event Match.update emits when the call gained mass for eater e.    *)
Outcome(ps, next, e) ==
  [players |-> next,
   events  |-> IF MassLess(ps[e].mass, next[e].mass) THEN <<"KILL">> ELSE <<>>]

(* One round of the player-versus-player loop of Match.update, for the     *)
(* pair (i, j); hit tells whether their circles overlap.                   *)
collide(ps, i, j, hit, growthCap) ==
  IF canEat(ps[i], ps[j])
    THEN IF hit THEN Outcome(ps, eatPlayer(ps, i, j, growthCap), i) ELSE Outcome(ps, ps, i)
    ELSE IF canEat(ps[j], ps[i]) /\ hit
           THEN Outcome(ps, eatPlayer(ps, j, i, growthCap), j)
           ELSE Outcome(ps, ps, j)

(* The player-versus-player loop of Match.update over the pairs; hits is   *)
(* the set of pairs whose circles overlap.  The value has the players      *)
(* after the loop and the KILL events emitted in it.                       *)
RECURSIVE collisions(_, _, _, _)
After(first, pairs, hits, growthCap) ==
  [collisions(first.players, pairs, hits, growthCap) EXCEPT !.events = first.events \o @]

collisions(ps, pairs, hits, growthCap) ==
  IF pairs = <<>> THEN [players |-> ps, events |-> <<>>]
  ELSE After(collide(ps, Head(pairs)[1], Head(pairs)[2], Head(pairs) \in hits, growthCap),
             Tail(pairs), hits, growthCap)

(* PhysicsEngine.eatPellet for k pellets the player's circle overlaps. *)
RECURSIVE eatPellet(_, _, _)
eatPellet(p, k, growthCap) ==
  IF k = 0 \/ p.isDead THEN p
  ELSE eatPellet([p EXCEPT !.mass = MassMin(FloatAdd(p.mass, Mass(PELLET_MASS)), growthCap)],
                 k - 1, growthCap)

(* The number of pellets the loop deletes: those eaten by living players. *)
Eaten(ps, eats) ==
  SumSeq([i \in 1..Len(ps) |-> IF ps[i].isDead THEN 0 ELSE eats[i]])

(* The respawn of Match.update: at most one pellet per tick, only below    *)
(* 500; roll1 is Math.random() > 0.5 and roll2 is Math.random() < 0.1.     *)
respawnMutant(g, roll1, roll2) ==
  IF g.state = "ACTIVE" \/ roll1
    THEN IF roll2 THEN g.pellets + 1 ELSE g.pellets
    ELSE g.pellets
respawn(g, roll1, roll2) ==
  IF g.state = "ACTIVE" \/ roll1
    THEN IF g.pellets < PELLET_COUNT /\ roll2 THEN g.pellets + 1 ELSE g.pellets
    ELSE g.pellets

RECURSIVE emitAll(_, _)
emitAll(g, events) ==
  IF events = <<>> THEN g ELSE emitAll(emitEvent(g, Head(events)), Tail(events))

(* The first player, in the order of the players map, whose updatePlayer   *)
(* call throws; 0 when there is none.                                      *)
FirstThrow(ps) ==
  IF \E i \in 1..Len(ps) : Throws(ps[i])
    THEN CHOOSE i \in 1..Len(ps) : Throws(ps[i]) /\ \A j \in 1..(i - 1) : ~Throws(ps[j])
    ELSE 0

(* The first loop over the players in Match.update: updatePlayer and, in   *)
(* SUDDEN_SHRINK, applyFogDamage; fog is the set of players outside the    *)
(* fog radius.  The loop ends in the updatePlayer call that throws: the    *)
(* players after that one are not reached.                                 *)
updatePlayers(g, fog) ==
  [i \in 1..Len(g.players) |->
     IF FirstThrow(g.players) \in 1..(i - 1) THEN g.players[i]
     ELSE IF FirstThrow(g.players) = i THEN updatePlayer(g.players[i])
     ELSE IF g.state = "SUDDEN_SHRINK" /\ i \in fog
       THEN applyFogDamage(updatePlayer(g.players[i]))
       ELSE updatePlayer(g.players[i])]

(* The match after the player-versus-player loop left c. *)
Collided(g, c) == emitAll([g EXCEPT !.players = c.players], c.events)

(* The player-versus-pellet loop: eats[i] is the number of pellets player  *)
(* i overlaps.                                                             *)
eatPellets(g, eats) ==
  [g EXCEPT !.players = [i \in 1..Len(g.players) |->
                           eatPellet(g.players[i], eats[i], g.growthCap)],
            !.pellets = g.pellets - Eaten(g.players, eats)]

Respawned(g, roll1, roll2) == [g EXCEPT !.pellets = respawn(g, roll1, roll2)]

(* The physics of Match.update after the state transitions: the players    *)
(* are updated, then the pairs of players collide (hits is the set of the  *)
(* overlapping pairs) with a KILL event for every eatPlayer call that      *)
(* gained mass, then pellets are eaten and respawned.  When updatePlayer   *)
(* throws, update ends in the first loop.                                  *)
physics(g, fog, hits, eats, roll1, roll2) ==
  IF FirstThrow(g.players) # 0
    THEN [g EXCEPT !.players = updatePlayers(g, fog)]
    ELSE Respawned(
           eatPellets(
             Collided(g, collisions(updatePlayers(g, fog), PairsFrom(1, 2, Len(g.players)),
                                    hits, g.growthCap)),
             eats),
           roll1, roll2)

(* Match.startMatch at time t *)
startMatch(g, t) == [g EXCEPT !.state = "ACTIVE", !.startTime = t]

(* Match.update from the check of SUDDEN_SHRINK on: the match ends when    *)
(* its time is over, and the call returns; else the physics run.           *)
updateShrink(g, t, fog, hits, eats, roll1, roll2) ==
  IF g.state = "SUDDEN_SHRINK" /\ t - g.startTime >= MATCH_DURATION_MS
    THEN matchEndMatch(g)
    ELSE physics(g, fog, hits, eats, roll1, roll2)

(* Match.update, the check of ACTIVE: SUDDEN_SHRINK begins with its event  *)
(* when the normal phase is over.                                          *)
updateActive(g, t) ==
  IF g.state = "ACTIVE" /\ t - g.startTime >= NORMAL_PHASE_MS
    THEN emitEvent([g EXCEPT !.state = "SUDDEN_SHRINK"], "SHRINK")
    ELSE g

(* Match.update after this.tick++: in COUNTDOWN the match starts when the  *)
(* countdown is over, and the call returns without physics.                *)
updateTicked(g, t, fog, hits, eats, roll1, roll2) ==
  IF g.state = "COUNTDOWN"
    THEN IF t - g.countdownStartTime >= COUNTDOWN_MS THEN startMatch(g, t) ELSE g
    ELSE updateShrink(updateActive(g, t), t, fog, hits, eats, roll1, roll2)

(* Match.update called at time t: the tick counter, the state transitions  *)
(* with their events and, outside the countdown and unless the match       *)
(* ended in this call, the physics with its KILL events.                   *)
matchUpdate(g, t, fog, hits, eats, roll1, roll2) ==
  updateTicked([g EXCEPT !.tick = @ + 1, !.clock = t], t, fog, hits, eats, roll1, roll2)

(* The call of Match.update on g at time t reaches the physics: not in     *)
(* COUNTDOWN and not in the call that ends the match.                      *)
PhysicsRun(g, t) ==
  /\ g.state # "COUNTDOWN"
  /\ ~(updateActive(g, t).state = "SUDDEN_SHRINK" /\ t - g.startTime >= MATCH_DURATION_MS)

(* The call of Match.update on g at time t throws: the physics run and     *)
(* updatePlayer throws for a player.                                       *)
matchUpdateThrows(g, t) == PhysicsRun(g, t) /\ FirstThrow(g.players) # 0

(* A Match object that createMatch replaced in activeMatches while its     *)
(* interval ran: the interval keeps calling it.                            *)
Detached(g) == [g EXCEPT !.active = FALSE, !.stale = <<>>, !.timers = 0, !.outbox = <<>>]

(* createMatch(config) for the match id of the variable game, with the     *)
(* given buy-in and team numbers: new Match, activeMatches.set,            *)
(* startCountdown, then onEvent registers the fan-out, setInterval and     *)
(* matchIntervals.set.  Nothing looks at the maps first: the new object    *)
(* takes the place of the one in memory, whose interval, if it still       *)
(* runs, is in no map any more; the room of the match id stays.            *)
StartGame(buyInCents, teams) ==
  /\ game.created < MaxCreates
  /\ LET fresh == [NewGame(buyInCents, teams, game.clock) EXCEPT
                      !.outbox = game.outbox, !.timers = game.timers]
     IN  game' = [onEvent(startCountdown(fresh)) EXCEPT
                    !.active = TRUE,
                    !.interval = TRUE,
                    !.created = game.created + 1,
                    !.stale = IF game.running /\ game.interval
                                THEN Append(game.stale, Detached(game))
                                ELSE game.stale]
  /\ UNCHANGED <<dbVars, gsVars, concVars, sims, sessions>>

(* A call of Match.update, dt after the previous one; when it throws, the  *)
(* object stays as the call left it.                                       *)
UpdateCall(dt, fog, hits, eats, roll1, roll2) ==
  /\ game.running
  /\ game.tick < MaxTicks
  /\ Eaten(game.players, eats) <= game.pellets
  /\ game' = matchUpdate(game, game.clock + dt, fog, hits, eats, roll1, roll2)
  /\ UNCHANGED <<dbVars, gsVars, concVars, sims, sessions>>

(* The server's endMatch(matchId), g being the object created last for the *)
(* match id: nothing happens when activeMatches holds no object; else the  *)
(* interval that matchIntervals holds, that of g, is cleared, the RESULT   *)
(* of g's calculateResults is emitted to the room and a clean-up timer is  *)
(* set.                                                                    *)
serverEndMatch(g) ==
  IF ~g.active THEN g
  ELSE [g EXCEPT !.interval = FALSE,
                 !.outbox = Append(@, Message("result", "", g.tick)),
                 !.timers = Min(@ + 1, MaxTimers)]

(* The interval callback after match.update(), for the object created      *)
(* last: the snapshot is broadcast and, once the match is in SETTLEMENT,   *)
(* endMatch is called.                                                     *)
broadcast(g) ==
  LET g1 == [g EXCEPT !.outbox = Append(@, Message("snapshot", "", g.tick))]
  IN  IF g1.state = "SETTLEMENT" THEN serverEndMatch(g1) ELSE g1

(* One run of the interval callback of the object created last, while its  *)
(* interval is not cleared: match.update(), the snapshot and endMatch.     *)
(* When update throws, the catch logs the error and the callback ends:     *)
(* no snapshot, no endMatch.                                               *)
GameTick(dt, fog, hits, eats, roll1, roll2) ==
  /\ game.running
  /\ game.interval
  /\ game.tick < MaxTicks
  /\ Eaten(game.players, eats) <= game.pellets
  /\ game' = IF matchUpdateThrows(game, game.clock + dt)
               THEN matchUpdate(game, game.clock + dt, fog, hits, eats, roll1, roll2)
               ELSE broadcast(matchUpdate(game, game.clock + dt, fog, hits, eats, roll1, roll2))
  /\ UNCHANGED <<dbVars, gsVars, concVars, sims, sessions>>

(* The snapshot of the replaced object o goes to the room. *)
staleBroadcast(o) == [o EXCEPT !.outbox = Append(@, Message("snapshot", "", o.tick))]

(* The game server after the interval callback of the replaced object k    *)
(* left o and threw in match.update(): the room has the events of o.       *)
staleThrown(g, k, o, t) ==
  [g EXCEPT !.clock = t, !.outbox = o.outbox, !.stale[k] = Detached(o)]

(* The game server after the interval callback of the replaced object k    *)
(* left o: the room has its messages and, with o in SETTLEMENT, endMatch   *)
(* was called with the match id, which acts on the object created last.    *)
staleDone(g, k, o, t) ==
  IF o.state = "SETTLEMENT"
    THEN serverEndMatch(staleThrown(g, k, o, t))
    ELSE staleThrown(g, k, o, t)

(* One run of the interval callback of the replaced object k, which        *)
(* nothing clears: match.update() with its events and the snapshot go to   *)
(* the room and, once the object is in SETTLEMENT, every run calls         *)
(* endMatch.  When update throws, the callback ends after the events:      *)
(* no snapshot, no endMatch.                                               *)
StaleTick(k, dt, fog, hits, eats, roll1, roll2) ==
  /\ k \in DOMAIN game.stale
  /\ game.stale[k].tick < MaxTicks
  /\ Eaten(game.stale[k].players, eats) <= game.stale[k].pellets
  /\ game' = IF matchUpdateThrows(game.stale[k], game.clock + dt)
               THEN staleThrown(game, k,
                                matchUpdate([game.stale[k] EXCEPT !.outbox = game.outbox],
                                            game.clock + dt, fog, hits, eats, roll1, roll2),
                                game.clock + dt)
               ELSE staleDone(game, k,
                              staleBroadcast(matchUpdate([game.stale[k] EXCEPT !.outbox = game.outbox],
                                                         game.clock + dt, fog, hits, eats, roll1, roll2)),
                              game.clock + dt)
  /\ UNCHANGED <<dbVars, gsVars, concVars, sims, sessions>>

(* A clean-up timer of endMatch fires: activeMatches.delete(matchId),       *)
(* whatever object the map holds by then.  Timers beyond MaxTimers are not *)
(* counted: at MaxTimers the count may stay.                               *)
GameCleanup ==
  /\ game.timers > 0
  /\ \/ game' = [game EXCEPT !.active = FALSE, !.timers = @ - 1]
     \/ game.timers = MaxTimers /\ game' = [game EXCEPT !.active = FALSE]
  /\ UNCHANGED <<dbVars, gsVars, concVars, sims, sessions>>

(* ------------------------- player sessions ---------------------------- *)

(* The id of the match the variable game holds. *)
GameMatchId == 1

(* Handshake tokens (0: none) and match ids (0: none); the user id of a    *)
(* token t is 'user-' + t, that of player i of the match is 'user-' + i.   *)
Tokens == 0..MaxGamePlayers
MatchIds == 0..(GameMatchId + 1)

(* The axes of an INPUT message: vectors with components in 0 .. MaxAxis.  *)
InputAxes == (0..MaxAxis) \X (0..MaxAxis)

(* The INPUT messages: with axes and boost, or with neither.               *)
InputMessages ==
  [axes : InputAxes, boost : {"true", "false"}] \cup {[axes |-> NoAxes, boost |-> "undefined"]}

NoSession == [connected |-> FALSE]

(* io.use and io.on('connection'): the handshake needs a token and a match *)
(* id; the socket is disconnected when the match is not in activeMatches   *)
(* or has no player of the token's user id.  The handlers of the socket    *)
(* keep the Match object found (match is its number among the objects      *)
(* created).  authSeen records that an AUTH message arrived on the socket; *)
(* the code keeps no such state.                                           *)
Connect(s, token, matchId) ==
  /\ ~sessions[s].connected
  /\ sessions' = [sessions EXCEPT ![s] =
        IF token = 0 \/ matchId = 0 THEN NoSession
        ELSE IF ~(game.active /\ matchId = GameMatchId) THEN NoSession
        ELSE IF token \notin 1..Len(game.players) THEN NoSession
        ELSE [connected |-> TRUE, playerId |-> token, match |-> game.created,
              authSeen |-> FALSE]]
  /\ UNCHANGED <<dbVars, gsVars, concVars, sims, game>>

(* socket.on('message') with an AUTH message: AUTH_OK is sent back. *)
AuthMessage(s) ==
  /\ sessions[s].connected
  /\ sessions' = [sessions EXCEPT ![s].authSeen = TRUE]
  /\ UNCHANGED <<dbVars, gsVars, concVars, sims, game>>

(* Match.updatePlayerInput: axes and boost are stored as they came.        *)
updatePlayerInput(g, playerId, axes, boost) ==
  IF playerId \in DOMAIN g.players
    THEN [g EXCEPT !.players[playerId].inputAxes = axes, !.players[playerId].boost = boost]
    ELSE g

(* socket.on('input'): the input goes to the Match object the socket found *)
(* when it connected, which createMatch may have replaced since.  An       *)
(* object that was replaced after its interval was cleared is referenced   *)
(* by its sockets only.                                                    *)
Input(s, axes, boost) ==
  /\ sessions[s].connected
  /\ game' =
       IF sessions[s].match = game.created
         THEN updatePlayerInput(game, sessions[s].playerId, axes, boost)
         ELSE [game EXCEPT !.stale =
                 [k \in DOMAIN game.stale |->
                    IF game.stale[k].created = sessions[s].match
                      THEN updatePlayerInput(game.stale[k], sessions[s].playerId, axes, boost)
                      ELSE game.stale[k]]]
  /\ UNCHANGED <<dbVars, gsVars, concVars, sims, sessions>>

(* socket.on('disconnect') *)
Disconnect(s) ==
  /\ sessions[s].connected
  /\ sessions' = [sessions EXCEPT ![s] = NoSession]
  /\ UNCHANGED <<dbVars, gsVars, concVars, sims, game>>

(* ------------------ concurrent wallet transactions ------------------- *)

(* Database connections running a WalletService transaction each. *)
Procs == 1..NumProcs

(* The wallet operations: amt is the amount moved; settleMatch releases    *)
(* amt of escrow and pays out.  matchId is the id lockEscrow, refundEscrow *)
(* and settleMatch are called with (a lobby id from joinLobby and          *)
(* leaveLobby, a match id from refundMatch and settleMatch); deposit and   *)
(* withdraw take none.                                                     *)
WalletOps ==
  [op : {"deposit", "withdraw"}, u : Users, amt : 1..MaxAmount, payout : {0}, matchId : {0}]
    \cup [op : {"lockEscrow", "refundEscrow"}, u : Users, amt : 1..MaxAmount, payout : {0},
          matchId : 1..MaxLobbies]
    \cup [op : {"settleMatch"}, u : Users, amt : 1..MaxAmount, payout : 0..MaxAmount,
          matchId : 1..MaxMatches]

IdleTx == [pc |-> "idle"]

(* The wallets CHECK constraints (available_cents >= 0, escrow_cents >= 0). *)
WalletCheck(w) == w.available_cents >= 0 /\ w.escrow_cents >= 0

(* The row an operation's UPDATE wallets statement writes, computed from   *)
(* the row w it finds.                                                     *)
UpdatedRow(w, o) ==
  CASE o.op = "deposit" ->
         [w EXCEPT !.available_cents = @ + o.amt, !.version = @ + 1]
    [] o.op = "withdraw" ->
         [w EXCEPT !.available_cents = @ - o.amt, !.version = @ + 1]
    [] o.op = "lockEscrow" ->
         [w EXCEPT !.available_cents = @ - o.amt, !.escrow_cents = @ + o.amt, !.version = @ + 1]
    [] o.op = "refundEscrow" ->
         [w EXCEPT !.available_cents = @ + o.amt, !.escrow_cents = @ - o.amt, !.version = @ + 1]
    [] o.op = "settleMatch" ->
         [w EXCEPT !.escrow_cents = @ - o.amt, !.available_cents = @ + o.payout, !.version = @ + 1]

(* The wallet_tx rows an operation inserts, with ref = { matchId } for the *)
(* escrow operations.  settleMatch is called with the one payout of o.u    *)
(* and rakeCents = o.amt - o.payout, so that the escrow it releases,       *)
(* totalEscrow / payouts.length, is o.amt; after the PAYOUT row it inserts *)
(* the RAKE row of the house user id.                                      *)
LedgerRows(o) ==
  CASE o.op = "deposit"      -> SetToBag({Row(o.u, "DEPOSIT", o.amt, 0, "")})
    [] o.op = "withdraw"     -> SetToBag({Row(o.u, "WITHDRAWAL", -o.amt, 0, "")})
    [] o.op = "lockEscrow"   -> SetToBag({Row(o.u, "ESCROW_LOCK", o.amt, o.matchId, "")})
    [] o.op = "refundEscrow" -> SetToBag({Row(o.u, "REFUND", o.amt, o.matchId, "")})
    [] o.op = "settleMatch"  -> SetToBag({Row(o.u, "PAYOUT", o.payout, o.matchId, "")})
                                  (+) SetToBag({Row(HOUSE, "RAKE", o.amt - o.payout, o.matchId, "")})

(* withdraw and lockEscrow read the balance with SELECT ... FOR UPDATE     *)
(* before they update; the others go straight to the UPDATE.               *)
SelectsForUpdate(o) == o.op \in {"withdraw", "lockEscrow"}

(* A statement that locks the wallets row of u (SELECT ... FOR UPDATE or   *)
(* UPDATE) proceeds when no other connection holds the lock, and waits     *)
(* otherwise.                                                              *)
CanLockMutant(p, u) == TRUE
CanLock(p, u) == rowLock[u] \in {0, p}

(* The transaction of connection p throws: rollback, its lock is released. *)
TxAbort(p) ==
  /\ txs' = [txs EXCEPT ![p] = IdleTx]
  /\ rowLock' = [u \in Users |-> IF rowLock[u] = p THEN 0 ELSE rowLock[u]]
  /\ ret' = Result(txs[p].o.op, FALSE)
  /\ UNCHANGED <<wallets, ledger, commitLog>>

(* Connection p starts operation o: the checks before the first statement  *)
(* that touches wallets (withdraw: the profile's KYC status).             *)
TxBegin(p, o) ==
  /\ txs[p].pc = "idle"
  /\ Len(commitLog) + Cardinality({q \in Procs : txs[q].pc # "idle"}) < MaxCommits
  /\ IF o.op = "withdraw" /\ kyc[o.u] # "APPROVED"
       THEN /\ ret' = Result(o.op, FALSE)
            /\ UNCHANGED txs
       ELSE /\ txs' = [txs EXCEPT ![p] = [pc |-> "begun", o |-> o]]
            /\ UNCHANGED ret
  /\ UNCHANGED <<wallets, kyc, ledger, lobbies, lobby_players, matches, match_players, house_user>>
  /\ UNCHANGED <<rowLock, commitLog>>
  /\ UNCHANGED <<gsVars, simVars>>

(* SELECT available_cents ... FOR UPDATE of withdraw and lockEscrow: the   *)
(* row is locked, the committed balance is read and checked.               *)
TxSelectForUpdate(p) ==
  /\ txs[p].pc = "begun"
  /\ SelectsForUpdate(txs[p].o)
  /\ CanLock(p, txs[p].o.u)
  /\ IF wallets[txs[p].o.u].available_cents < txs[p].o.amt
       THEN TxAbort(p)
       ELSE /\ txs' = [txs EXCEPT ![p].pc = "selected"]
            /\ rowLock' = [rowLock EXCEPT ![txs[p].o.u] = p]
            /\ UNCHANGED <<wallets, ledger, commitLog, ret>>
  /\ UNCHANGED <<kyc, lobbies, lobby_players, matches, match_players, house_user>>
  /\ UNCHANGED <<gsVars, simVars>>

(* UPDATE wallets SET ... = ... +/- $1: the row is locked (if it is not    *)
(* yet), the new row is computed from the committed one and checked        *)
(* against the CHECK constraints; it stays invisible until the commit.     *)
TxUpdate(p) ==
  /\ txs[p].pc # "idle"
  /\ txs[p].pc = IF SelectsForUpdate(txs[p].o) THEN "selected" ELSE "begun"
  /\ CanLock(p, txs[p].o.u)
  /\ LET row == UpdatedRow(wallets[txs[p].o.u], txs[p].o)
     IN  IF ~WalletCheck(row)
           THEN TxAbort(p)
           ELSE /\ txs' = [txs EXCEPT ![p] = [pc |-> "updated", o |-> txs[p].o, row |-> row]]
                /\ rowLock' = [rowLock EXCEPT ![txs[p].o.u] = p]
                /\ UNCHANGED <<wallets, ledger, commitLog, ret>>
  /\ UNCHANGED <<kyc, lobbies, lobby_players, matches, match_players, house_user>>
  /\ UNCHANGED <<gsVars, simVars>>

(* The rest of the transaction: the INSERTs into wallet_tx and the COMMIT, *)
(* with which the updated wallets row and the inserted rows become        *)
(* visible and the lock is released.  The RAKE row of settleMatch         *)
(* references the house user id (wallet_tx.user_id REFERENCES users):     *)
(* without that users row the INSERT throws and the transaction rolls     *)
(* back.                                                                  *)
TxCommit(p) ==
  /\ txs[p].pc = "updated"
  /\ IF txs[p].o.op = "settleMatch" /\ ~house_user
       THEN TxAbort(p)
       ELSE /\ wallets' = [wallets EXCEPT ![txs[p].o.u] = txs[p].row]
            /\ ledger' = ledger (+) LedgerRows(txs[p].o)
            /\ commitLog' = Append(commitLog, txs[p].o)
            /\ txs' = [txs EXCEPT ![p] = IdleTx]
            /\ rowLock' = [u \in Users |-> IF rowLock[u] = p THEN 0 ELSE rowLock[u]]
            /\ ret' = Result(txs[p].o.op, TRUE)
  /\ UNCHANGED <<kyc, lobbies, lobby_players, matches, match_players, house_user>>
  /\ UNCHANGED <<gsVars, simVars>>

(* --------------------- concurrent joinLobby calls --------------------- *)

(* SELECT * FROM lobbies ... FOR UPDATE proceeds when no other connection  *)
(* holds the lock of the lobby row, and waits otherwise; a joinLobby       *)
(* transaction holds it from that statement to its end.                    *)
CanLockLobbyMutant(p, l) == TRUE
CanLockLobby(p, l) ==
  \A q \in Procs \ {p} : ~(txs[q].pc \in {"join_checked", "join_locked"} /\ txs[q].l = l)

(* joinLobby on connection p up to the escrow lock: the lobby row is       *)
(* locked and the state, membership and player-count checks read the       *)
(* committed rows.                                                         *)
JoinSelect(p, l, u) ==
  /\ txs[p].pc = "idle"
  /\ CanLockLobby(p, l)
  /\ IF ~JoinAdmissible(l, u)
       THEN /\ ret' = Result("joinLobby", FALSE)
            /\ UNCHANGED txs
       ELSE /\ txs' = [txs EXCEPT ![p] = [pc |-> "join_checked", l |-> l, u |-> u]]
            /\ UNCHANGED ret
  /\ UNCHANGED <<wallets, kyc, ledger, lobbies, lobby_players, matches, match_players, house_user>>
  /\ UNCHANGED <<rowLock, commitLog>>
  /\ UNCHANGED <<gsVars, simVars>>

(* walletService.lockEscrow inside joinLobby: a transaction of its own,    *)
(* committed when it returns; when it throws, joinLobby rolls back.        *)
JoinLockEscrow(p) ==
  /\ txs[p].pc = "join_checked"
  /\ LET locked == lockEscrow(DB, txs[p].u, lobbies[txs[p].l].buy_in_cents, txs[p].l)
     IN IF ~locked.ok
          THEN /\ txs' = [txs EXCEPT ![p] = IdleTx]
               /\ ret' = Result("joinLobby", FALSE)
               /\ UNCHANGED <<wallets, ledger>>
          ELSE /\ wallets' = locked.w
               /\ ledger' = locked.lg
               /\ txs' = [txs EXCEPT ![p].pc = "join_locked"]
               /\ UNCHANGED ret
  /\ UNCHANGED <<kyc, lobbies, lobby_players, matches, match_players, house_user>>
  /\ UNCHANGED <<rowLock, commitLog>>
  /\ UNCHANGED <<gsVars, simVars>>

(* INSERT INTO lobby_players and COMMIT: the primary key (lobby_id,        *)
(* user_id) refuses a second row of the same player.                       *)
JoinInsert(p) ==
  /\ txs[p].pc = "join_locked"
  /\ IF <<txs[p].l, txs[p].u>> \in lobby_players
       THEN /\ ret' = Result("joinLobby", FALSE)
            /\ UNCHANGED lobby_players
       ELSE /\ lobby_players' = lobby_players \cup {<<txs[p].l, txs[p].u>>}
            /\ ret' = Result("joinLobby", TRUE)
  /\ txs' = [txs EXCEPT ![p] = IdleTx]
  /\ UNCHANGED <<wallets, kyc, ledger, lobbies, matches, match_players, house_user>>
  /\ UNCHANGED <<rowLock, commitLog>>
  /\ UNCHANGED <<gsVars, simVars>>

(* ------------------- concurrent keyed deposit calls ------------------- *)

(* The UNIQUE index on wallet_tx.idempotency_key when connection p inserts *)
(* a row with the key: a committed row with the key is a violation, an     *)
(* uncommitted one of another connection makes the INSERT wait.            *)
UniqueKeyMutant(p, key) == "ok"
UniqueKey(p, key) ==
  IF KeyUsed(ledger, key) THEN "violation"
  ELSE IF \E q \in Procs \ {p} : txs[q].pc = "dep_inserted" /\ txs[q].key = key THEN "wait"
  ELSE "ok"

(* deposit on connection p up to the idempotency lookup, which reads the   *)
(* committed rows: a COMPLETED row with the key ends the call with its id. *)
DepSelect(p, u, amt, key) ==
  /\ txs[p].pc = "idle"
  /\ amt > 0
  /\ key # ""
  /\ IF KeyUsed(ledger, key)
       THEN /\ ret' = TxResult("deposit", RowWithKey(ledger, key))
            /\ UNCHANGED txs
       ELSE /\ txs' = [txs EXCEPT ![p] = [pc |-> "dep_selected", u |-> u, amt |-> amt, key |-> key]]
            /\ UNCHANGED ret
  /\ UNCHANGED <<wallets, kyc, ledger, lobbies, lobby_players, matches, match_players, house_user>>
  /\ UNCHANGED <<rowLock, commitLog>>
  /\ UNCHANGED <<gsVars, simVars>>

(* INSERT INTO wallet_tx of deposit: a unique violation throws and the     *)
(* transaction rolls back.                                                 *)
DepInsert(p) ==
  /\ txs[p].pc = "dep_selected"
  /\ UniqueKey(p, txs[p].key) # "wait"
  /\ IF UniqueKey(p, txs[p].key) = "violation"
       THEN /\ txs' = [txs EXCEPT ![p] = IdleTx]
            /\ ret' = Result("deposit", FALSE)
       ELSE /\ txs' = [txs EXCEPT ![p].pc = "dep_inserted"]
            /\ UNCHANGED ret
  /\ UNCHANGED <<wallets, kyc, ledger, lobbies, lobby_players, matches, match_players, house_user>>
  /\ UNCHANGED <<rowLock, commitLog>>
  /\ UNCHANGED <<gsVars, simVars>>

(* The rest of deposit: UPDATE wallets SET available_cents =               *)
(* available_cents + $1, the row marked COMPLETED, COMMIT.                 *)
DepCommit(p) ==
  /\ txs[p].pc = "dep_inserted"
  /\ wallets' = [wallets EXCEPT ![txs[p].u].available_cents = @ + txs[p].amt,
                                ![txs[p].u].version = @ + 1]
  /\ ledger' = Insert(ledger, Row(txs[p].u, "DEPOSIT", txs[p].amt, 0, txs[p].key))
  /\ ret' = TxResult("deposit", Row(txs[p].u, "DEPOSIT", txs[p].amt, 0, txs[p].key))
  /\ txs' = [txs EXCEPT ![p] = IdleTx]
  /\ UNCHANGED <<kyc, lobbies, lobby_players, matches, match_players, house_user>>
  /\ UNCHANGED <<rowLock, commitLog>>
  /\ UNCHANGED <<gsVars, simVars>>

(* ------------- concurrent settleMatch and refundMatch calls ----------- *)

(* SELECT * FROM matches ... FOR UPDATE of settleMatch and the UPDATE      *)
(* matches of refundMatch proceed when no other connection holds the lock  *)
(* of the match row, and wait otherwise; a settleMatch transaction holds   *)
(* it from its SELECT to its end.  The plain SELECT of refundMatch never   *)
(* waits.                                                                  *)
CanLockMatch(p, m) ==
  \A q \in Procs \ {p} : ~(txs[q].pc \in {"settle_written", "settle_paid"} /\ txs[q].m = m)

(* refundMatch on connection p up to its loop: the match row (ended_at is  *)
(* in it, the code never looks at it), the lobby's players (in the order   *)
(* the SELECT returns them) and the buy-in are read from the committed     *)
(* rows.                                                                   *)
RefundSelect(p, m, order) ==
  /\ txs[p].pc = "idle"
  /\ IF m \notin DOMAIN matches
       THEN /\ ret' = Result("refundMatch", FALSE)
            /\ UNCHANGED txs
       ELSE /\ txs' = [txs EXCEPT ![p] = [pc |-> "refund_selected", m |-> m, rest |-> order,
                                          ended_at |-> matches[m].ended_at,
                                          amt |-> lobbies[matches[m].lobby_id].buy_in_cents]]
            /\ UNCHANGED ret
  /\ UNCHANGED <<wallets, kyc, ledger, lobbies, lobby_players, matches, match_players, house_user>>
  /\ UNCHANGED <<rowLock, commitLog>>
  /\ UNCHANGED <<gsVars, simVars>>

(* One turn of the loop of refundMatch: walletService.refundEscrow for the *)
(* next player, a transaction of its own that is committed when it         *)
(* returns; when it throws, refundMatch rolls back.                        *)
RefundStep(p) ==
  /\ txs[p].pc = "refund_selected"
  /\ txs[p].rest # <<>>
  /\ LET refunded == refundEscrow(DB, Head(txs[p].rest), txs[p].amt, txs[p].m)
     IN IF ~refunded.ok
          THEN /\ txs' = [txs EXCEPT ![p] = IdleTx]
               /\ ret' = Result("refundMatch", FALSE)
               /\ UNCHANGED <<wallets, ledger>>
          ELSE /\ wallets' = refunded.w
               /\ ledger' = refunded.lg
               /\ txs' = [txs EXCEPT ![p].rest = Tail(@)]
               /\ UNCHANGED ret
  /\ UNCHANGED <<kyc, lobbies, lobby_players, matches, match_players, house_user>>
  /\ UNCHANGED <<rowLock, commitLog>>
  /\ UNCHANGED <<gsVars, simVars>>

(* The end of refundMatch: UPDATE matches SET ended_at, UPDATE lobbies,    *)
(* COMMIT.                                                                 *)
RefundEnd(p) ==
  /\ txs[p].pc = "refund_selected"
  /\ txs[p].rest = <<>>
  /\ CanLockMatch(p, txs[p].m)
  /\ matches' = [matches EXCEPT ![txs[p].m].ended_at = TRUE]
  /\ lobbies' = [lobbies EXCEPT ![matches[txs[p].m].lobby_id].state = "COMPLETED"]
  /\ txs' = [txs EXCEPT ![p] = IdleTx]
  /\ ret' = Result("refundMatch", TRUE)
  /\ UNCHANGED <<wallets, kyc, ledger, lobby_players, match_players, house_user>>
  /\ UNCHANGED <<rowLock, commitLog>>
  /\ UNCHANGED <<gsVars, simVars>>

(* settleMatch on connection p up to the payouts: the match row is locked, *)
(* ended_at is checked on the committed row, and the result rows and the   *)
(* updates of the match and the lobby are written, invisible to the other  *)
(* connections until the commit; seed and nonce are the caller's.         *)
SettleSelect(p, m, order, masses, seed, nonce) ==
  /\ txs[p].pc = "idle"
  /\ m \in DOMAIN matches => CanLockMatch(p, m)
  /\ IF m \notin DOMAIN matches
       THEN /\ ret' = Result("settleMatch", FALSE)
            /\ UNCHANGED txs
       ELSE LET results == calculateResults(MatchConfig(matches[m].lobby_id),
                                            FinalPlayers(order, masses))
            IN IF AlreadySettled(m) \/ DuplicateResult(m, results)
                 THEN /\ ret' = Result("settleMatch", FALSE)
                      /\ UNCHANGED txs
                 ELSE /\ txs' = [txs EXCEPT ![p] = [pc |-> "settle_written", m |-> m,
                                                    results |-> results,
                                                    seed |-> seed, nonce |-> nonce]]
                      /\ UNCHANGED ret
  /\ UNCHANGED <<wallets, kyc, ledger, lobbies, lobby_players, matches, match_players, house_user>>
  /\ UNCHANGED <<rowLock, commitLog>>
  /\ UNCHANGED <<gsVars, simVars>>

(* walletService.settleMatch inside settleMatch: a transaction of its own, *)
(* committed when it returns; when it throws, settleMatch rolls back.      *)
SettleWallet(p) ==
  /\ txs[p].pc = "settle_written"
  /\ LET paid == walletSettleMatch(DB, txs[p].m, txs[p].results, matches[txs[p].m].rake_cents)
     IN IF ~paid.ok
          THEN /\ txs' = [txs EXCEPT ![p] = IdleTx]
               /\ ret' = Result("settleMatch", FALSE)
               /\ UNCHANGED <<wallets, ledger>>
          ELSE /\ wallets' = paid.w
               /\ ledger' = paid.lg
               /\ txs' = [txs EXCEPT ![p].pc = "settle_paid"]
               /\ UNCHANGED ret
  /\ UNCHANGED <<kyc, lobbies, lobby_players, matches, match_players, house_user>>
  /\ UNCHANGED <<rowLock, commitLog>>
  /\ UNCHANGED <<gsVars, simVars>>

(* updatePlayerMMR and the COMMIT of settleMatch: the result rows, the     *)
(* ended match with the seed and nonce of the call, and the completed      *)
(* lobby become visible.                                                   *)
SettleCommit(p) ==
  /\ txs[p].pc = "settle_paid"
  /\ match_players' = match_players \cup MatchPlayerRows(txs[p].m, txs[p].results)
  /\ matches' = [matches EXCEPT ![txs[p].m].ended_at = TRUE,
                                ![txs[p].m].seed = txs[p].seed,
                                ![txs[p].m].nonce = txs[p].nonce]
  /\ lobbies' = [lobbies EXCEPT ![matches[txs[p].m].lobby_id].state = "COMPLETED"]
  /\ txs' = [txs EXCEPT ![p] = IdleTx]
  /\ ret' = Result("settleMatch", TRUE)
  /\ UNCHANGED <<wallets, kyc, ledger, lobby_players, house_user>>
  /\ UNCHANGED <<rowLock, commitLog>>
  /\ UNCHANGED <<gsVars, simVars>>

(* The handler of a settleMatch or refundMatch in flight dies (process     *)
(* crash, lost connection): its transaction rolls back; what the wallet    *)
(* transactions committed stays.                                           *)
CallFails(p) ==
  /\ txs[p].pc \in {"refund_selected", "settle_written", "settle_paid"}
  /\ ret' = Result(IF txs[p].pc = "refund_selected" THEN "refundMatch" ELSE "settleMatch", FALSE)
  /\ txs' = [txs EXCEPT ![p] = IdleTx]
  /\ UNCHANGED <<wallets, kyc, ledger, lobbies, lobby_players, matches, match_players, house_user>>
  /\ UNCHANGED <<rowLock, commitLog>>
  /\ UNCHANGED <<gsVars, simVars>>

(* --------------------------- specification ---------------------------- *)

Init ==
  /\ wallets = [u \in Users |-> [available_cents |-> 0, escrow_cents |-> 0, version |-> 0]]
  /\ kyc = [u \in Users |-> IF u = 1 THEN "APPROVED" ELSE "NONE"]
  /\ ledger = EmptyBag
  /\ lobbies = <<>>
  /\ lobby_players = {}
  /\ matches = <<>>
  /\ match_players = {}
  /\ house_user \in BOOLEAN
  /\ ret = Result("init", TRUE)
  /\ up = TRUE
  /\ now = 0
  /\ heap = <<>>
  /\ activeMatches = <<>>
  /\ matchIntervals = <<>>
  /\ cleanupTimers = [m \in GsIds |-> 0]
  /\ resultSent = [m \in GsIds |-> 0]
  /\ crashedMatches = {}
  /\ crashes = 0
  /\ sims = [i \in 1..NumSims |-> NoSim]
  /\ game = NoGame
  /\ sessions = [s \in 1..NumSessions |-> NoSession]
  /\ txs = [p \in Procs |-> IdleTx]
  /\ rowLock = [u \in Users |-> 0]
  /\ commitLog = <<>>

MatchOrders(m) ==
  IF m \in DOMAIN matches THEN Orders(Members(matches[m].lobby_id)) ELSE {<<>>}

(* The seed and nonce a caller that read the match row hands to          *)
(* settleMatch.                                                           *)
StoredSeed(m) == IF m \in DOMAIN matches THEN matches[m].seed ELSE <<>>
StoredNonce(m) == IF m \in DOMAIN matches THEN matches[m].nonce ELSE <<>>

(* The HTTP handlers call deposit and withdraw without an idempotency key. *)
NoKey == ""

(* The service calls that keep one transaction from their first statement *)
(* to their last.  refundMatch, whose refunds commit one after the other  *)
(* with other calls in between, runs statement by statement in            *)
(* SpecRefundConc, SpecFair and SpecLive.                                 *)
Next ==
  \/ \E u \in Users, a \in Amounts : Deposit(u, a, NoKey)
  \/ \E u \in Users, a \in Amounts : Withdraw(u, a, NoKey)
  \/ \E c \in LobbyConfigs : CreateLobby(c)
  \/ \E l \in 1..MaxLobbies, u \in Users : JoinLobby(l, u)
  \/ \E l \in 1..MaxLobbies, u \in Users : JoinLobbyFail(l, u)
  \/ \E l \in 1..MaxLobbies, u \in Users : LeaveLobby(l, u)
  \/ \E l \in 1..MaxLobbies, u \in Users : LeaveLobbyFail(l, u)
  \/ \E l \in 1..MaxLobbies : StartMatch(l)
  \/ \E m \in 1..MaxMatches : \E order \in MatchOrders(m) :
       \E masses \in [Users -> Masses] : SettleMatch(m, order, masses, StoredSeed(m), StoredNonce(m))
  \/ \E m \in 1..MaxMatches : \E order \in MatchOrders(m) :
       \E masses \in [Users -> Masses] : SettleMatchFail(m, order, masses)

Spec == Init /\ [][Next]_vars

(* The lobby whose match the game server plays. *)
PlayedLobby == CHOOSE c \in LobbyConfigs : c.payout_model = "WINNER_TAKE_ALL"

(* The lifecycle of one match, database and game server together.  The    *)
(* timers of the game server (the game loop, the clean-up) and the clock  *)
(* run by themselves; the restart of a dead process is taken for granted; *)
(* every service call is made by a caller and carries no fairness.  A     *)
(* caller may refund the match once its game server died, and the sockets *)
(* of the players of the first Match object send INPUT messages.          *)
LiveNext ==
  \/ \E u \in Users : Len(lobbies) = 0 /\ wallets[u].available_cents = 0 /\ Deposit(u, MaxAmount, NoKey)
  \/ Len(lobbies) = 0 /\ CreateLobby(PlayedLobby)
  \/ \E u \in Users : JoinLobby(1, u)
  \/ Len(matches) = 0 /\ StartMatch(1)
  \/ \E order \in MatchOrders(1) : \E masses \in [Users -> Masses] : SettleMatch(1, order, masses, StoredSeed(1), StoredNonce(1))
  \/ \E order \in MatchOrders(1) : crashedMatches # {} /\ RefundSelect(1, 1, order)
  \/ RefundStep(1)
  \/ RefundEnd(1)
  \/ CallFails(1)
  \/ /\ crashedMatches = {}
     /\ 1 \in DOMAIN matches
     /\ 1 \notin DOMAIN activeMatches
     /\ resultSent[1] = 0
     /\ \E n \in 1..MaxRoomPlayers : CreateMatch(1, n)
  \/ \E dt \in TimeSteps : Advance(dt)
  \/ \E o \in 1..MaxCreates : GameLoop(o)
  \/ \E i \in 1..MaxRoomPlayers : \E hasAxes \in BOOLEAN : SocketInput(1, i, hasAxes)
  \/ Cleanup(1)
  \/ Crash
  \/ Start

LiveFairness ==
  /\ \A o \in 1..MaxCreates : WF_vars(GameLoop(o))
  /\ WF_vars(Cleanup(1))
  /\ WF_vars(\E dt \in TimeSteps : Advance(dt))
  /\ WF_vars(Start)

SpecLive == Init /\ [][LiveNext]_vars /\ LiveFairness

(* A game server that stays up and is asked to create matches in any way:  *)
(* for an id with or without a matches row, and again for an id that is    *)
(* in memory or was.  The clock runs from one phase deadline of a running  *)
(* game loop to the next.                                                  *)
Deadline(g) ==
  CASE g.state = "COUNTDOWN"     -> g.countdownStartTime + COUNTDOWN_MS
    [] g.state = "ACTIVE"        -> g.startTime + NORMAL_PHASE_MS
    [] g.state = "SUDDEN_SHRINK" -> g.startTime + MATCH_DURATION_MS
    [] OTHER                     -> now

AdvanceTo(o) ==
  /\ o \in DOMAIN heap
  /\ heap[o].interval
  /\ Deadline(heap[o]) > now
  /\ Advance(Deadline(heap[o]) - now)

ServerNext ==
  \/ \E u \in Users : Len(lobbies) = 0 /\ wallets[u].available_cents = 0 /\ Deposit(u, MaxAmount, NoKey)
  \/ Len(lobbies) = 0 /\ CreateLobby(PlayedLobby)
  \/ \E u \in Users : JoinLobby(1, u)
  \/ Len(matches) = 0 /\ StartMatch(1)
  \/ \E order \in MatchOrders(1) : \E masses \in [Users -> Masses] : SettleMatch(1, order, masses, StoredSeed(1), StoredNonce(1))
  \/ \E m \in GsIds : CreateMatch(m, 1)
  \/ \E o \in 1..MaxCreates : AdvanceTo(o)
  \/ \E o \in 1..MaxCreates : GameLoop(o)
  \/ \E o \in 1..MaxCreates : \E hasAxes \in BOOLEAN : SocketInput(o, 1, hasAxes)
  \/ \E m \in GsIds : Cleanup(m)

ServerFairness ==
  /\ \A o \in 1..MaxCreates : WF_vars(GameLoop(o))
  /\ \A m \in GsIds : WF_vars(Cleanup(m))
  /\ WF_vars(\E o \in 1..MaxCreates : AdvanceTo(o))

SpecServer == Init /\ [][ServerNext]_vars /\ ServerFairness

(* A lobby that accounts outside Users have already joined: MAX_PLAYERS   *)
(* or one fewer of them hold a lobby_players row of lobby 1.  Their       *)
(* wallets are not part of the model.                                     *)
OtherMembers(k) == (NumUsers + 1)..(NumUsers + k)

InitJoin ==
  /\ wallets = [u \in Users |-> [available_cents |-> 0, escrow_cents |-> 0, version |-> 0]]
  /\ kyc = [u \in Users |-> IF u = 1 THEN "APPROVED" ELSE "NONE"]
  /\ ledger = EmptyBag
  /\ \E c \in LobbyConfigs :
       lobbies = <<[buy_in_cents   |-> c.buy_in_cents,
                    payout_model   |-> c.payout_model,
                    rake_bps       |-> c.rake_bps,
                    rake_cap_cents |-> c.rake_cap_cents,
                    state          |-> "WAITING"]>>
  /\ \E k \in {MAX_PLAYERS - 1, MAX_PLAYERS} :
       lobby_players = { <<1, o>> : o \in OtherMembers(k) }
  /\ matches = <<>>
  /\ match_players = {}
  /\ house_user \in BOOLEAN
  /\ ret = Result("init", TRUE)
  /\ up = TRUE
  /\ now = 0
  /\ heap = <<>>
  /\ activeMatches = <<>>
  /\ matchIntervals = <<>>
  /\ cleanupTimers = [m \in GsIds |-> 0]
  /\ resultSent = [m \in GsIds |-> 0]
  /\ crashedMatches = {}
  /\ crashes = 0
  /\ sims = [i \in 1..NumSims |-> NoSim]
  /\ game = NoGame
  /\ sessions = [s \in 1..NumSessions |-> NoSession]
  /\ txs = [p \in Procs |-> IdleTx]
  /\ rowLock = [u \in Users |-> 0]
  /\ commitLog = <<>>

JoinNext ==
  \/ \E u \in Users, a \in Amounts : Deposit(u, a, NoKey)
  \/ \E u \in Users : JoinLobby(1, u)
  \/ \E u \in Users : LeaveLobby(1, u)
  \/ \E u \in Users : LeaveLobbyFail(1, u)
  \/ StartMatch(1)

SpecJoin == InitJoin /\ [][JoinNext]_vars

(* joinLobby calls on the nearly full lobby, interleaved statement by      *)
(* statement.                                                              *)
JoinConcNext ==
  \/ \E u \in Users : Deposit(u, MaxAmount, NoKey)
  \/ \E p \in Procs, u \in Users : JoinSelect(p, 1, u)
  \/ \E p \in Procs : JoinLockEscrow(p)
  \/ \E p \in Procs : JoinInsert(p)

SpecJoinConc == InitJoin /\ [][JoinConcNext]_vars

(* deposit and withdraw called with and without idempotency keys. *)
IdemNext ==
  \/ \E u \in Users, a \in Amounts, k \in IdemKeys : Deposit(u, a, k)
  \/ \E u \in Users, a \in Amounts, k \in IdemKeys : Withdraw(u, a, k)

SpecIdem == Init /\ [][IdemNext]_vars

(* The seeds and nonces a caller may hand to settleMatch: those of a      *)
(* commitment, or the empty string.                                       *)
SettleSeeds == { c.seed : c \in generateCommitment } \cup {<<>>}
SettleNonces == { c.nonce : c \in generateCommitment } \cup {<<>>}

(* One lobby, its matches, their settlement with any seed and nonce, and  *)
(* the match-results query.                                               *)
FairNext ==
  \/ \E u \in Users : Len(lobbies) = 0 /\ wallets[u].available_cents = 0 /\ Deposit(u, MaxAmount, NoKey)
  \/ \E c \in LobbyConfigs : Len(lobbies) = 0 /\ CreateLobby(c)
  \/ \E u \in Users : JoinLobby(1, u)
  \/ StartMatch(1)
  \/ \E m \in 1..MaxMatches : \E order \in MatchOrders(m) : \E masses \in [Users -> Masses] :
       \E seed \in SettleSeeds, nonce \in SettleNonces : SettleMatch(m, order, masses, seed, nonce)
  \/ \E p \in Procs :
       \/ \E m \in 1..MaxMatches : \E order \in MatchOrders(m) : RefundSelect(p, m, order)
       \/ RefundStep(p)
       \/ RefundEnd(p)
       \/ CallFails(p)
  \/ \E m \in 1..MaxMatches : GetMatchResults(m)

SpecFair == Init /\ [][FairNext]_vars

(* Match construction and verification on their own: the game server     *)
(* constructs simulations from any configuration, players verify them      *)
(* with the right or a wrong commit.                                       *)
RngNext ==
  \E i \in 1..NumSims :
    \/ \E cfg \in SimConfigs : ConstructMatch(i, cfg)
    \/ \E n \in 1..NumNonces : \E good \in BOOLEAN :
         VerifyMatch(i, <<100 + n>>,
                     IF good THEN createCommit(sims[i].seed, <<100 + n>>) ELSE <<>>)

SpecRng == Init /\ [][RngNext]_vars

(* One match simulated tick by tick, for every buy-in and player count. *)
(* The time between two ticks: a tick follows at once (1000 / TICK_RATE ms *)
(* is below the resolution of the phases) or when the next phase is due.   *)
PhaseDue(g) ==
  CASE g.state = "COUNTDOWN"     -> {g.countdownStartTime + COUNTDOWN_MS - game.clock}
    [] g.state = "ACTIVE"        -> {g.startTime + NORMAL_PHASE_MS - game.clock}
    [] g.state = "SUDDEN_SHRINK" -> {g.startTime + MATCH_DURATION_MS - game.clock}
    [] OTHER                     -> {}

GameDts == {0} \cup PhaseDue(game)

(* The inputs of the physics of one Match.update call on g at time t: the  *)
(* players in the fog, the overlapping pairs, the pellets every player     *)
(* overlaps and the two random numbers.  What the call does not read is    *)
(* left out: nothing is read in COUNTDOWN and in the call that ends the    *)
(* match, the fog only in SUDDEN_SHRINK, the first random number only      *)
(* outside ACTIVE, and a call that throws reads the fog of the players     *)
(* before the one it throws for.                                           *)
TickInputs(g, t, counts) ==
  IF ~PhysicsRun(g, t)
    THEN {[fog |-> {}, hits |-> {}, eats |-> [i \in 1..Len(g.players) |-> 0],
           roll1 |-> FALSE, roll2 |-> FALSE]}
    ELSE IF FirstThrow(g.players) # 0
    THEN [fog   : IF updateActive(g, t).state = "SUDDEN_SHRINK"
                    THEN SUBSET (1..(FirstThrow(g.players) - 1)) ELSE {{}},
          hits  : {{}},
          eats  : {[i \in 1..Len(g.players) |-> 0]},
          roll1 : {FALSE},
          roll2 : {FALSE}]
    ELSE [fog   : IF updateActive(g, t).state = "SUDDEN_SHRINK"
                    THEN SUBSET (1..Len(g.players)) ELSE {{}},
          hits  : SUBSET { <<i, j>> \in (1..Len(g.players)) \X (1..Len(g.players)) : i < j },
          eats  : [1..Len(g.players) -> counts],
          roll1 : IF updateActive(g, t).state = "ACTIVE" THEN {TRUE} ELSE BOOLEAN,
          roll2 : BOOLEAN]

(* The team numbers of the players of a match: solo matches of 1 to        *)
(* MaxGamePlayers players, and a match whose players are all of team 1.    *)
TeamConfigs ==
  {[i \in 1..n |-> 0] : n \in 1..MaxGamePlayers} \cup {[i \in 1..MaxGamePlayers |-> 1]}

GameNext ==
  \/ /\ ~game.running
     /\ \E b \in GameBuyIns : \E teams \in TeamConfigs : StartGame(b, teams)
  \/ \E dt \in GameDts : \E in \in TickInputs(game, game.clock + dt, EatCounts) :
       GameTick(dt, in.fog, in.hits, in.eats, in.roll1, in.roll2)

SpecGame == Init /\ [][GameNext]_vars

(* The INPUT messages of a socket of a match that is simulated: one        *)
(* without axes and boost, and one with axes that asks for a boost.        *)
GameInputs == {[axes |-> NoAxes, boost |-> "undefined"], [axes |-> <<0, 0>>, boost |-> "true"]}

(* One match of MaxGamePlayers players simulated tick by tick while a      *)
(* socket of one of its players sends INPUT messages.  No player touches   *)
(* a pellet.                                                               *)
InputNext ==
  \/ ~game.running /\ StartGame(MaxBuyIn, [i \in 1..MaxGamePlayers |-> 0])
  \/ \E dt \in GameDts : \E in \in TickInputs(game, game.clock + dt, {0}) :
       GameTick(dt, in.fog, in.hits, in.eats, in.roll1, in.roll2)
  \/ \E token \in 1..MaxGamePlayers : Connect(1, token, GameMatchId)
  \/ \E in \in GameInputs : Input(1, in.axes, in.boost)

SpecInput == Init /\ [][InputNext]_vars

(* Match.update called again and again on one match of MaxGamePlayers      *)
(* players, whatever its state: a call may also come when both the normal  *)
(* phase and the whole match are over.  A socket of one of the players     *)
(* sends INPUT messages; no player touches a pellet.                       *)
PhaseDts ==
  GameDts \cup (IF game.state = "ACTIVE"
                  THEN {game.startTime + MATCH_DURATION_MS - game.clock}
                  ELSE {})

PhaseNext ==
  \/ ~game.running /\ StartGame(MaxBuyIn, [i \in 1..MaxGamePlayers |-> 0])
  \/ \E dt \in PhaseDts : \E in \in TickInputs(game, game.clock + dt, {0}) :
       UpdateCall(dt, in.fog, in.hits, in.eats, in.roll1, in.roll2)
  \/ \E token \in 1..MaxGamePlayers : Connect(1, token, GameMatchId)
  \/ \E in \in GameInputs : Input(1, in.axes, in.boost)

SpecPhase == Init /\ [][PhaseNext]_vars

(* Match.calculateResults on its own: the game server ends a match of 1   *)
(* to MaxResultPlayers players, listed in the configuration in any order,  *)
(* with any final masses; endMatch computes the results of a match once.   *)
ResultConfigs ==
  [buyInCents : {1, 2, 1000}, payoutModel : {"WINNER_TAKE_ALL", "TOP_3_LADDER", "PROPORTIONAL"},
   rakeBps : {0, 800}, rakeCapCents : {NULL, 100}]

CalculateResults(cfg, order, masses) ==
  /\ ret.op = "init"
  /\ ret' = [op |-> "calculateResults", ok |-> TRUE, cfg |-> cfg,
             results |-> calculateResults(cfg, FinalPlayers(order, masses))]
  /\ UNCHANGED <<wallets, kyc, ledger, lobbies, lobby_players, matches, match_players, house_user>>
  /\ UNCHANGED <<gsVars, simVars, concVars>>

ResultNext ==
  \E cfg \in ResultConfigs : \E n \in 1..MaxResultPlayers :
  \E order \in Orders(1..n) : \E masses \in [1..n -> Masses] :
    CalculateResults(cfg, order, masses)

SpecResult == Init /\ [][ResultNext]_vars

(* The room of one match id: createMatch, called for the id any number of  *)
(* times up to MaxCreates, the interval of every object created, the       *)
(* INPUT messages of a socket and the clean-up timers.  No player touches  *)
(* a pellet, and a tick comes when the                                     *)
(* next phase of its object is due, or at once after the last.             *)
RoomDts(g) == IF PhaseDue(g) = {} THEN {0} ELSE { dt \in PhaseDue(g) : dt >= 0 }

RoomNext ==
  \/ StartGame(MaxBuyIn, [i \in 1..MaxGamePlayers |-> 0])
  \/ \E dt \in RoomDts(game) : \E in \in TickInputs(game, game.clock + dt, {0}) :
       GameTick(dt, in.fog, in.hits, in.eats, in.roll1, in.roll2)
  \/ \E k \in DOMAIN game.stale : \E dt \in RoomDts(game.stale[k]) :
     \E in \in TickInputs(game.stale[k], game.clock + dt, {0}) :
       StaleTick(k, dt, in.fog, in.hits, in.eats, in.roll1, in.roll2)
  \/ \E token \in 1..MaxGamePlayers : Connect(1, token, GameMatchId)
  \/ \E in \in GameInputs : Input(1, in.axes, in.boost)
  \/ GameCleanup

SpecRoom == Init /\ [][RoomNext]_vars

(* The sockets of one match id: createMatch, called for the id any number  *)
(* of times up to MaxCreates, connections, AUTH and INPUT messages.        *)
SessionNext ==
  \/ \E n \in 1..MaxGamePlayers : StartGame(MaxBuyIn, [i \in 1..n |-> 0])
  \/ \E s \in 1..NumSessions :
       \/ \E token \in Tokens, matchId \in MatchIds : Connect(s, token, matchId)
       \/ AuthMessage(s)
       \/ \E in \in InputMessages : Input(s, in.axes, in.boost)
       \/ Disconnect(s)

SpecSession == Init /\ [][SessionNext]_vars

(* Wallet operations run by concurrent connections, statement by         *)
(* statement.                                                              *)
ConcNext ==
  \E p \in Procs :
    \/ \E o \in WalletOps : TxBegin(p, o)
    \/ TxSelectForUpdate(p)
    \/ TxUpdate(p)
    \/ TxCommit(p)

SpecConc == Init /\ [][ConcNext]_vars

(* deposit calls carrying idempotency keys, interleaved statement by       *)
(* statement.                                                              *)
DepConcNext ==
  \E p \in Procs :
    \/ \E u \in Users, a \in 1..MaxAmount, k \in IdemKeys \ {""} : DepSelect(p, u, a, k)
    \/ DepInsert(p)
    \/ DepCommit(p)

SpecDepConc == Init /\ [][DepConcNext]_vars

(* settleMatch and refundMatch calls on match 1, interleaved statement by  *)
(* statement, for players who may also be members of a second lobby.       *)
RefundConcNext ==
  \/ \E u \in Users : Deposit(u, MaxAmount, NoKey)
  \/ \E c \in LobbyConfigs : CreateLobby(c)
  \/ \E l \in 1..MaxLobbies, u \in Users : JoinLobby(l, u)
  \/ Len(matches) = 0 /\ StartMatch(1)
  \/ \E p \in Procs :
       \/ \E order \in MatchOrders(1) : RefundSelect(p, 1, order)
       \/ RefundStep(p)
       \/ RefundEnd(p)
       \/ \E order \in MatchOrders(1) : \E masses \in [Users -> Masses] :
            \E seed \in SettleSeeds, nonce \in SettleNonces :
              SettleSelect(p, 1, order, masses, seed, nonce)
       \/ SettleWallet(p)
       \/ SettleCommit(p)
       \/ CallFails(p)

SpecRefundConc == Init /\ [][RefundConcNext]_vars

(* ------------------------------ claims -------------------------------- *)

RECURSIVE SumRows(_, _)
SumRows(lg, rows) ==
  IF rows = {} THEN 0
  ELSE LET r == CHOOSE x \in rows : TRUE
       IN r.amount_cents * CopiesIn(r, lg) + SumRows(lg, rows \ {r})

MoneyKinds == {"DEPOSIT", "WITHDRAWAL", "PAYOUT", "REFUND"}

LedgerSum(u) ==
  SumRows(ledger, { r \in BagToSet(ledger) :
                      r.user_id = u /\ r.status = "COMPLETED" /\ r.type \in MoneyKinds })

(* C1: in every reachable state each account's available_cents +          *)
(* escrow_cents equals the signed sum of the amounts of its COMPLETED     *)
(* ledger rows of kinds DEPOSIT, WITHDRAWAL, PAYOUT and REFUND.           *)
C1_BalanceEqualsLedger ==
  \A u \in Users : wallets[u].available_cents + wallets[u].escrow_cents = LedgerSum(u)

ResultsOf(m) == { r \in match_players : r.match_id = m }

RECURSIVE SumPayouts(_)
SumPayouts(rows) ==
  IF rows = {} THEN 0
  ELSE LET r == CHOOSE x \in rows : TRUE IN r.payout_cents + SumPayouts(rows \ {r})

(* C2: for every settled match the sum of the players' payouts plus the   *)
(* rake equals the pot, whatever the payout model, player count and       *)
(* final masses.                                                          *)
C2_PayoutsPlusRakeEqualPot ==
  \A m \in DOMAIN matches :
    (matches[m].ended_at /\ ResultsOf(m) # {}) =>
      SumPayouts(ResultsOf(m)) + matches[m].rake_cents = matches[m].pot_cents

(* A step in which settleMatch settled match m. *)
SettledNow(m) ==
  /\ m \in DOMAIN matches
  /\ ~matches[m].ended_at
  /\ m \in DOMAIN matches' /\ matches'[m].ended_at
  /\ ret' = Result("settleMatch", TRUE)

(* C3: settling a match decreases every listed player's escrow by exactly *)
(* the buy-in and increases the player's available balance by exactly the *)
(* player's payout.                                                       *)
C3_SettleReleasesBuyIn ==
  [][\A m \in 1..MaxMatches : SettledNow(m) =>
       \A r \in ResultsOf(m)' :
         /\ wallets'[r.user_id].escrow_cents =
              wallets[r.user_id].escrow_cents - lobbies[matches[m].lobby_id].buy_in_cents
         /\ wallets'[r.user_id].available_cents =
              wallets[r.user_id].available_cents + r.payout_cents]_vars

(* C4: every match created by startMatch has rake <= floor(pot * rake_bps *)
(* / 10000), rake <= rake_cap whenever the lobby has a cap (0 included),  *)
(* net_pot = pot - rake and pot = buy_in * number of members.             *)
C4_RakeWithinBpsAndCap ==
  \A m \in DOMAIN matches :
    LET l == lobbies[matches[m].lobby_id]
    IN /\ matches[m].rake_cents <= (matches[m].pot_cents * l.rake_bps) \div BPS_DENOM
       /\ l.rake_cap_cents # NULL => matches[m].rake_cents <= l.rake_cap_cents
       /\ matches[m].net_pot_cents = matches[m].pot_cents - matches[m].rake_cents
       /\ matches[m].pot_cents = l.buy_in_cents * Cardinality(Members(matches[m].lobby_id))

(* A step of a service call that was rejected because a balance check or  *)
(* a CHECK constraint refused a negative balance.                         *)
RejectedCall ==
  /\ ~ret'.ok
  /\ \/ \E u \in Users, a \in Amounts : Withdraw(u, a, NoKey)
     \/ \E l \in 1..MaxLobbies, u \in Users : JoinLobby(l, u)
     \/ \E l \in 1..MaxLobbies, u \in Users : LeaveLobby(l, u)
     \/ \E m \in 1..MaxMatches : \E order \in MatchOrders(m) :
          \E masses \in [Users -> Masses] : SettleMatch(m, order, masses, StoredSeed(m), StoredNonce(m))

(* A step in which the refundMatch call of connection p is rejected: one   *)
(* of its refundEscrow calls throws.                                       *)
RejectedRefund(p) ==
  /\ txs[p].pc = "refund_selected"
  /\ RefundStep(p)
  /\ txs'[p].pc = "idle"

(* The refundMatch call of connection p has committed no refund yet: every *)
(* player of the match is still to be refunded.                            *)
NothingRefunded(p) == txs[p].rest \in MatchOrders(txs[p].m)

(* C5: every wallet has available_cents >= 0 and escrow_cents >= 0 in     *)
(* every reachable state, and an operation that is rejected because it    *)
(* would make a balance negative commits nothing: the step of a rejected  *)
(* call changes no wallet and no ledger row, and a rejected refundMatch   *)
(* has committed none of its refunds.                                     *)
C5_NonNegativeAndRejectCommitsNothing ==
  /\ [](\A u \in Users : wallets[u].available_cents >= 0 /\ wallets[u].escrow_cents >= 0)
  /\ [][RejectedCall => UNCHANGED <<wallets, ledger>>]_vars
  /\ [][\A p \in Procs : RejectedRefund(p) => NothingRefunded(p)]_vars

(* A settleMatch call on connection p reads the row of match m and finds    *)
(* ended_at set.                                                           *)
SecondSettle(p, m) ==
  /\ m \in DOMAIN matches
  /\ matches[m].ended_at
  /\ \E order \in MatchOrders(m) : \E masses \in [Users -> Masses] :
     \E seed \in SettleSeeds, nonce \in SettleNonces :
       SettleSelect(p, m, order, masses, seed, nonce)

C7_RefundOfCompletedIsNoOp ==
  [][\A p \in Procs :
       ( /\ txs[p].pc = "refund_selected"
         /\ txs[p].ended_at
         /\ RefundStep(p) )
       => UNCHANGED <<wallets, ledger>>]_vars

LockRow(l, u) == Row(u, "ESCROW_LOCK", lobbies[l].buy_in_cents, l, "")

(* C10: a step locks a player's buy-in for a lobby (commits an            *)
(* ESCROW_LOCK row for it) if and only if the same step records the       *)
(* player as a member of that lobby.                                      *)
C10_JoinAtomic ==
  [][\A l \in DOMAIN lobbies : \A u \in Users :
       (CopiesIn(LockRow(l, u), ledger') > CopiesIn(LockRow(l, u), ledger))
         <=> (<<l, u>> \in lobby_players' /\ <<l, u>> \notin lobby_players)]_vars

InPlay(m) ==
  /\ m \in DOMAIN matches
  /\ ~matches[m].ended_at
  /\ lobbies[matches[m].lobby_id].state \in {"COUNTDOWN", "ACTIVE", "SUDDEN_SHRINK"}

Completed(m) ==
  /\ m \in DOMAIN matches
  /\ matches[m].ended_at
  /\ lobbies[matches[m].lobby_id].state = "COMPLETED"

(* C8: after a crash and restart while a match is in play with ended_at   *)
(* null, the match is eventually refunded and marked completed.           *)
C8_CrashedMatchEventuallyRefunded ==
  \A m \in 1..MaxMatches :
    (up /\ m \in crashedMatches /\ InPlay(m)) ~> Completed(m)

(* C9: every match whose simulation reaches the settlement phase is       *)
(* eventually settled: the match and its lobby become completed.          *)
C9_SettlementPhaseEventuallySettled ==
  \A m \in 1..MaxMatches :
    ( /\ m \in DOMAIN matches
      /\ m \in DOMAIN activeMatches
      /\ heap[activeMatches[m]].state = "SETTLEMENT" ) ~> Completed(m)

(* C11: joinLobby is rejected when the lobby is not waiting, when it      *)
(* already holds the maximum number of players, or when the player is     *)
(* already a member; the rejection leaves the membership set, every       *)
(* wallet and the ledger unchanged.                                       *)
C11_JoinRejections ==
  [][\A l \in DOMAIN lobbies : \A u \in Users :
       ( /\ JoinLobby(l, u)
         /\ \/ lobbies[l].state # "WAITING"
            \/ Cardinality(LobbyRows(l)) >= MAX_PLAYERS
            \/ <<l, u>> \in lobby_players )
       => /\ ret' = Result("joinLobby", FALSE)
          /\ UNCHANGED <<lobby_players, wallets, ledger>>]_vars

(* A full waiting lobby none of whose members is in Users, a user with    *)
(* the buy-in available, and the last call a joinLobby that was refused.  *)
C11_Witness ==
  /\ ret = Result("joinLobby", FALSE)
  /\ lobbies[1].state = "WAITING"
  /\ Cardinality(LobbyRows(1)) = MAX_PLAYERS
  /\ Members(1) = {}
  /\ \E u \in Users : wallets[u].available_cents >= lobbies[1].buy_in_cents

(* The row a deposit or withdrawal of amt by u under key k writes. *)
KeyedRow(u, op, amt, k) ==
  IF op = "deposit" THEN Row(u, "DEPOSIT", amt, 0, k) ELSE Row(u, "WITHDRAWAL", -amt, 0, k)

KeyedCall(u, op, amt, k) ==
  IF op = "deposit" THEN Deposit(u, amt, k) ELSE Withdraw(u, amt, k)

(* C12: a deposit or withdrawal applied again under the idempotency key   *)
(* of its committed ledger row changes no wallet, adds no ledger row and  *)
(* returns the id of that row; the first application wrote exactly that   *)
(* one row and returned its id, and a key never has two rows.             *)
C12_IdempotentReplay ==
  /\ [](\A k \in IdemKeys \ {""} :
          Cardinality({ r \in BagToSet(ledger) : r.idempotency_key = k }) <= 1
          /\ \A r \in BagToSet(ledger) : r.idempotency_key = k => CopiesIn(r, ledger) = 1)
  /\ [][\A u \in Users, a \in Amounts \ {0}, k \in IdemKeys \ {""}, op \in {"deposit", "withdraw"} :
          KeyedCall(u, op, a, k) =>
            /\ (CopiesIn(KeyedRow(u, op, a, k), ledger) = 1 /\ (op = "withdraw" => kyc[u] = "APPROVED"))
                 => /\ UNCHANGED <<wallets, ledger>>
                    /\ ret' = TxResult(op, KeyedRow(u, op, a, k))
            /\ (~KeyUsed(ledger, k) /\ ret'.ok)
                 => /\ ledger' = Insert(ledger, KeyedRow(u, op, a, k))
                    /\ ret' = TxResult(op, KeyedRow(u, op, a, k))]_vars

(* A deposit replayed under key k1: the call returned the id of the k1    *)
(* row although the account's available balance is 0, which no applied    *)
(* deposit leaves behind.                                                 *)
C12_Witness ==
  /\ ret.op = "deposit" /\ ret.ok
  /\ ret.tx.idempotency_key = "k1"
  /\ CopiesIn(ret.tx, ledger) = 1
  /\ wallets[ret.tx.user_id].available_cents = 0

(* The lobby state changes the lifecycle allows. *)
LobbyStep(a, b) ==
  \/ a = b
  \/ a = "WAITING" /\ b = "COUNTDOWN"
  \/ a = "COUNTDOWN" /\ b = "ACTIVE"
  \/ a = "ACTIVE" /\ b = "SUDDEN_SHRINK"
  \/ a = "SUDDEN_SHRINK" /\ b = "SETTLEMENT"
  \/ a = "SETTLEMENT" /\ b = "COMPLETED"
  \/ a \in {"COUNTDOWN", "ACTIVE", "SUDDEN_SHRINK"} /\ b = "COMPLETED"

(* C13: a lobby's persisted state only changes along waiting, countdown,  *)
(* active, shrink, settlement, completed, or from countdown, active or    *)
(* shrink to completed by a refund; startMatch takes a waiting lobby to   *)
(* countdown and persists the match with ended_at null.                   *)
C13_LobbyStateOrder ==
  [][\A l \in DOMAIN lobbies :
       /\ LobbyStep(lobbies[l].state, lobbies'[l].state)
       /\ (StartMatch(l) /\ ret'.ok) =>
            /\ lobbies[l].state = "WAITING"
            /\ lobbies'[l].state = "COUNTDOWN"
            /\ ~matches'[Len(matches')].ended_at]_vars

(* C14: no read result carries the seed or the nonce of a match whose     *)
(* ended_at is null; before completion only the commit is observable.     *)
C14_SeedHiddenUntilCompleted ==
  (ret.op = "getMatchResults" /\ ret.ok /\ ~ret.endedAt)
    => (ret.seed = <<>> /\ ret.nonce = <<>>)

(* C15: every persisted match row has commit = H(seed || nonce) for the   *)
(* seed and nonce of the same row, and no step changes a row's commit.    *)
C15_CommitMatchesSeedAndNonce ==
  /\ [](\A m \in DOMAIN matches :
          matches[m].commit = createCommit(matches[m].seed, matches[m].nonce))
  /\ [][\A m \in DOMAIN matches : matches'[m].commit = matches[m].commit]_vars

(* C16: a verification that accepts the commitment reproduces exactly the  *)
(* spawn positions and the pellet positions of the Match simulation it     *)
(* verifies (same seed, player count, map radius, pellet count).           *)
C16_VerifierReproducesSimulation ==
  (ret.op = "verifyMatch" /\ ret.ok)
    => /\ ret.reproduced.spawnPositions = sims[ret.slot].spawns
       /\ ret.reproduced.pelletPositions = sims[ret.slot].pellets

C18_MassWithinGrowthCap ==
  game.running =>
    \A i \in 1..Len(game.players) :
      ~MassLess(Mass(game.buyInCents * GROWTH_CAP_MULTIPLIER), game.players[i].mass)

(* C19: the number of pellets of a match never exceeds 500, whatever is    *)
(* eaten and respawned.                                                    *)
C19_PelletsAtMost500 ==
  game.running => game.pellets <= PELLET_COUNT

C19_Witness ==
  /\ game.running
  /\ game.state = "ACTIVE"
  /\ game.pellets = PELLET_COUNT
  /\ \E i \in 1..Len(game.players) :
       MassLess(Mass(INITIAL_PLAYER_MASS), game.players[i].mass)

(* The amount rank i of n is owed under the top-3 ladder with the residue  *)
(* of the floors given to rank 1.                                          *)
LadderFloor(netPot, i) ==
  IF i = 1 THEN (netPot * 65) \div 100
  ELSE IF i = 2 THEN (netPot * 25) \div 100
  ELSE IF i = 3 THEN (netPot * 10) \div 100
  ELSE 0

LadderOwed(netPot, n, i) ==
  LET floors == SumSeq([k \in 1..n |-> LadderFloor(netPot, k)])
  IN  IF i = 1 THEN LadderFloor(netPot, 1) + (netPot - floors) ELSE LadderFloor(netPot, i)

(* C20: under the top-3 ladder calculateResults pays the floors of 65%,    *)
(* 25% and 10% of the net pot to ranks 1 to 3, nothing to the other ranks, *)
(* and adds the whole residue to rank 1, for every player count.           *)
C20_LadderPaysFloorsAndResidue ==
  (ret.op = "calculateResults" /\ ret.cfg.payoutModel = "TOP_3_LADDER") =>
    LET n      == Len(ret.results)
        netPot == ret.cfg.buyInCents * n - GameRake(ret.cfg, n)
    IN  \A i \in 1..n : ret.results[i].payoutCents = LadderOwed(netPot, n, i)

(* The amount rank i is owed under the proportional model: the floor of    *)
(* its share of the net pot, an equal split when every mass is zero, and   *)
(* in both cases the residue to rank 1.                                    *)
ProportionalShare(netPot, results, i) ==
  LET totalMass == SumSeq([k \in 1..Len(results) |-> results[k].finalMass])
  IN  IF totalMass > 0 THEN (results[i].finalMass * netPot) \div totalMass
      ELSE netPot \div Len(results)

ProportionalOwed(netPot, results, i) ==
  LET shares == SumSeq([k \in 1..Len(results) |-> ProportionalShare(netPot, results, k)])
  IN  ProportionalShare(netPot, results, i) + (IF i = 1 THEN netPot - shares ELSE 0)

(* C21: under the proportional model calculateResults pays every player    *)
(* the floor of final_mass / total_mass of the net pot, an equal split     *)
(* when all masses are zero, and adds the residue to rank 1.               *)
C21_ProportionalWithResidue ==
  (ret.op = "calculateResults" /\ ret.cfg.payoutModel = "PROPORTIONAL") =>
    LET n      == Len(ret.results)
        netPot == ret.cfg.buyInCents * n - GameRake(ret.cfg, n)
    IN  \A i \in 1..n : ret.results[i].payoutCents = ProportionalOwed(netPot, ret.results, i)

(* C22: the placements of calculateResults are 1..N, by final mass         *)
(* descending and, among equal masses, by player id ascending, whatever    *)
(* the order of the players in the match configuration.                    *)
C22_PlacementByMassThenId ==
  ret.op = "calculateResults" =>
    LET r == ret.results
    IN  /\ \A i \in 1..Len(r) : r[i].placement = i
        /\ \A i, j \in 1..Len(r) :
             i < j => \/ r[i].finalMass > r[j].finalMass
                      \/ r[i].finalMass = r[j].finalMass /\ r[i].userId < r[j].userId

(* C23, as claimed: a withdrawal is rejected when the amount is not        *)
(* positive, the KYC status is not APPROVED or the available balance is    *)
(* below the amount, and then changes no wallet and commits no ledger row; *)
(* otherwise it succeeds and available decreases by exactly the amount.    *)
C23_WithdrawRejectsOrDecreases ==
  [][\A u \in Users, a \in Amounts, k \in IdemKeys :
       Withdraw(u, a, k) =>
         IF a <= 0 \/ kyc[u] # "APPROVED" \/ wallets[u].available_cents < a
         THEN /\ ~ret'.ok
              /\ UNCHANGED <<wallets, ledger>>
         ELSE /\ ret'.ok
              /\ wallets' = [wallets EXCEPT ![u].available_cents = @ - a, ![u].version = @ + 1]]_vars

(* C23, amended: a withdrawal is rejected when the amount is not positive  *)
(* or the KYC status is not APPROVED; otherwise a call whose idempotency   *)
(* key is that of a ledger row returns that row's id and changes nothing;  *)
(* otherwise it is rejected when the available balance is below the        *)
(* amount.  A rejected call changes no wallet and commits no ledger row;   *)
(* the remaining calls succeed, available decreases by exactly the amount, *)
(* escrow is untouched and one WITHDRAWAL row of minus the amount is       *)
(* committed.                                                              *)
C23_WithdrawRejections ==
  [][\A u \in Users, a \in Amounts, k \in IdemKeys :
       Withdraw(u, a, k) =>
         IF a <= 0 \/ kyc[u] # "APPROVED"
         THEN /\ ~ret'.ok
              /\ UNCHANGED <<wallets, ledger>>
         ELSE IF k # "" /\ \E r \in BagToSet(ledger) : r.idempotency_key = k
         THEN /\ ret'.ok
              /\ ret'.tx \in BagToSet(ledger)
              /\ ret'.tx.idempotency_key = k
              /\ UNCHANGED <<wallets, ledger>>
         ELSE IF wallets[u].available_cents < a
         THEN /\ ~ret'.ok
              /\ UNCHANGED <<wallets, ledger>>
         ELSE /\ ret'.ok
              /\ wallets' = [wallets EXCEPT ![u].available_cents = @ - a, ![u].version = @ + 1]
              /\ ledger' = Insert(ledger, Row(u, "WITHDRAWAL", -a, 0, k))]_vars

(* A withdrawal refused for its amount after one that emptied the wallet.  *)
C23_Witness ==
  /\ ret = Result("withdraw", FALSE)
  /\ \E r \in BagToSet(ledger) : r.type = "WITHDRAWAL" /\ r.user_id = 1 /\ r.amount_cents = -MaxAmount
  /\ wallets[1].available_cents = 0
  /\ wallets[1].version = 2

(* The squared length of an axes vector. *)
Length2(axes) == axes[1] * axes[1] + axes[2] * axes[2]

(* C24: in every reachable state every cell's stored input axes are a     *)
(* vector of length at most 1: an INPUT with longer axes is rejected or    *)
(* normalised.                                                             *)
C24_StoredAxesWithinUnitLength ==
  \A i \in 1..Len(game.players) :
    /\ game.players[i].inputAxes # NoAxes
    /\ Length2(game.players[i].inputAxes) <= 1

(* C25: an INPUT received on a session before its AUTH message changes no  *)
(* cell's stored axes or boost.                                            *)
C25_NoInputBeforeAuth ==
  [][\A s \in 1..NumSessions : \A in \in InputMessages :
       (Input(s, in.axes, in.boost) /\ ~sessions[s].authSeen) => game' = game]_vars

(* The wallets after the operations of log are applied one after the       *)
(* other to w, each with its balance check made on the row the previous    *)
(* one left; ok is FALSE when one of them would be rejected.               *)
RECURSIVE Serial(_, _)
Serial(w, log) ==
  IF log = <<>> THEN [w |-> w, ok |-> TRUE]
  ELSE LET o   == Head(log)
           row == UpdatedRow(w[o.u], o)
       IN  IF (SelectsForUpdate(o) /\ w[o.u].available_cents < o.amt) \/ ~WalletCheck(row)
             THEN [w |-> w, ok |-> FALSE]
             ELSE Serial([w EXCEPT ![o.u] = row], Tail(log))

ZeroWallets == [u \in Users |-> [available_cents |-> 0, escrow_cents |-> 0, version |-> 0]]

(* C26: whatever the interleaving of concurrent wallet operations, the     *)
(* committed wallets are those of the committed operations applied         *)
(* serially, in commit order, every one passing its balance check there.   *)
C26_ConcurrentOpsSerializable ==
  /\ Serial(ZeroWallets, commitLog).ok
  /\ Serial(ZeroWallets, commitLog).w = wallets

C26_Witness ==
  /\ Len(commitLog) = 3
  /\ commitLog[1].op = "deposit" /\ commitLog[1].u = 1 /\ commitLog[1].amt = MaxAmount
  /\ commitLog[2].op = "withdraw" /\ commitLog[2].u = 1
  /\ commitLog[3].op = "lockEscrow" /\ commitLog[3].u = 1
  /\ wallets[1].available_cents = 0
  /\ wallets[1].escrow_cents = 1

(* C27: a successful joinLobby moves exactly the buy-in from available to  *)
(* escrow and adds the membership; leaveLobby by a member of a waiting     *)
(* lobby who holds the buy-in in escrow moves it back and removes the      *)
(* membership, so that join followed by leave restores both balances;      *)
(* leaveLobby on a lobby that is not waiting is rejected and changes no    *)
(* membership and no wallet.                                               *)
C27_JoinThenLeaveRestores ==
  [][\A l \in DOMAIN lobbies : \A u \in Users :
       LET b == lobbies[l].buy_in_cents
       IN  /\ (JoinLobby(l, u) /\ ret'.ok) =>
                /\ wallets'[u].available_cents = wallets[u].available_cents - b
                /\ wallets'[u].escrow_cents = wallets[u].escrow_cents + b
                /\ lobby_players' = lobby_players \cup {<<l, u>>}
           /\ ( /\ LeaveLobby(l, u)
                /\ lobbies[l].state = "WAITING"
                /\ <<l, u>> \in lobby_players
                /\ wallets[u].escrow_cents >= b ) =>
                /\ ret'.ok
                /\ wallets'[u].available_cents = wallets[u].available_cents + b
                /\ wallets'[u].escrow_cents = wallets[u].escrow_cents - b
                /\ \A v \in Users \ {u} : wallets'[v] = wallets[v]
                /\ lobby_players' = lobby_players \ {<<l, u>>}
           /\ (LeaveLobby(l, u) /\ lobbies[l].state # "WAITING") =>
                /\ ~ret'.ok
                /\ UNCHANGED <<wallets, ledger, lobby_players>>]_vars

C27_Witness ==
  /\ ret = Result("leaveLobby", TRUE)
  /\ lobby_players = {}
  /\ \E u \in Users :
       /\ wallets[u].available_cents = MaxAmount
       /\ wallets[u].escrow_cents = 0
       /\ wallets[u].version = 3
       /\ \E r \in BagToSet(ledger) : r.type = "ESCROW_LOCK" /\ r.user_id = u
       /\ \E r \in BagToSet(ledger) : r.type = "REFUND" /\ r.user_id = u


(* The number of events of one kind among those a match emitted, and the   *)
(* place of a phase in countdown, active, shrink, settlement.              *)
EventCount(events, kind) == Cardinality({i \in 1..Len(events) : events[i] = kind})

PhaseRank(state) ==
  CASE state = "COUNTDOWN"     -> 1
    [] state = "ACTIVE"        -> 2
    [] state = "SUDDEN_SHRINK" -> 3
    [] state = "SETTLEMENT"    -> 4

(* C28: across any sequence of Match.update calls the phase only moves     *)
(* forward along countdown, active, shrink, settlement, never backward and *)
(* never out of settlement; SHRINK is emitted exactly once, in the call    *)
(* that leaves active, and END exactly once, in the call that enters       *)
(* settlement.                                                             *)
C28_PhasesForwardEventsOnce ==
  [][(game.running /\ game'.running /\ game'.tick = game.tick + 1) =>
       /\ PhaseRank(game'.state) >= PhaseRank(game.state)
       /\ game.state = "COUNTDOWN" => game'.state \in {"COUNTDOWN", "ACTIVE"}
       /\ game.state = "SETTLEMENT" => game'.state = "SETTLEMENT"
       /\ EventCount(game'.emitted, "SHRINK") - EventCount(game.emitted, "SHRINK")
            = IF game.state = "ACTIVE" /\ game'.state # "ACTIVE" THEN 1 ELSE 0
       /\ EventCount(game'.emitted, "END") - EventCount(game.emitted, "END")
            = IF game.state # "SETTLEMENT" /\ game'.state = "SETTLEMENT" THEN 1 ELSE 0
       /\ EventCount(game'.emitted, "SHRINK") = IF PhaseRank(game'.state) >= 3 THEN 1 ELSE 0
       /\ EventCount(game'.emitted, "END") = IF game'.state = "SETTLEMENT" THEN 1 ELSE 0
       /\ (EventCount(game'.emitted, "END") = 1) =>
            \E i, j \in 1..Len(game'.emitted) :
              i < j /\ game'.emitted[i] = "SHRINK" /\ game'.emitted[j] = "END"]_vars

(* A match that went through every phase and was updated again in         *)
(* settlement: one SHRINK, one END.                                        *)
C28_Witness ==
  /\ game.running
  /\ game.state = "SETTLEMENT"
  /\ game.tick = MaxTicks
  /\ game.clock > game.startTime + MATCH_DURATION_MS - 1
  /\ EventCount(game.emitted, "SHRINK") = 1
  /\ EventCount(game.emitted, "END") = 1

(* C30: every event a match emits, the COUNTDOWN event of the countdown's  *)
(* start included, is delivered to the fan-out of the match's sessions.    *)
C30_EveryEventDelivered ==
  game.running => game.delivered = game.emitted

(* C29: while the interval keeps calling the game loop and the clock       *)
(* keeps advancing, every Match object eventually reaches SETTLEMENT, and  *)
(* its game loop then stops: an object in SETTLEMENT has its interval      *)
(* cleared and its RESULT sent, and is never updated again.                *)
C29_LoopReachesSettlementAndStops ==
  /\ \A o \in 1..MaxCreates :
       (o \in DOMAIN heap) ~> (o \in DOMAIN heap /\ heap[o].state = "SETTLEMENT")
  /\ [](\A o \in DOMAIN heap :
          heap[o].state = "SETTLEMENT" => ~heap[o].interval /\ resultSent[heap[o].id] > 0)
  /\ [][\A o \in DOMAIN heap : heap[o].state = "SETTLEMENT" => ~GameLoop(o)]_vars

(* The eats counted on the players (eater.kills) of a match. *)
TotalKills(g) == SumSeq([i \in 1..Len(g.players) |-> g.players[i].kills])

(* C31: in every tick each cell eaten by another cell (the eater's kills   *)
(* counter grows, the victim is dead with mass 0) has its KILL event       *)
(* emitted in the same tick, also when the eater gains no mass.            *)
C31_EveryEatEmitsKill ==
  [][(game.running /\ game'.running /\ game'.tick = game.tick + 1) =>
       EventCount(game'.emitted, "KILL") - EventCount(game.emitted, "KILL")
         = TotalKills(game') - TotalKills(game)]_vars

(* C32: in the messages sent to the room of a match, every event of tick   *)
(* t + 1 comes after the snapshot of tick t, and the RESULT comes after    *)
(* the END event.                                                          *)
C32_SnapshotBeforeNextEvents ==
  game.running =>
    \A j \in 1..Len(game.outbox) :
      LET msg == game.outbox[j]
      IN  /\ (msg.type = "event" /\ msg.tick > 1) =>
               \E i \in 1..(j - 1) : game.outbox[i] = Message("snapshot", "", msg.tick - 1)
          /\ msg.type = "snapshot" =>
               \A i \in 1..(j - 1) : game.outbox[i].tick <= msg.tick
          /\ msg.type = "result" =>
               \E i \in 1..(j - 1) : /\ game.outbox[i].type = "event"
                                      /\ game.outbox[i].eventType = "END"

(* The PAYOUT and RAKE rows the ledger holds for a match. *)
SettlementRows(m) ==
  { r \in BagToSet(ledger) : r.ref = m /\ r.type \in {"PAYOUT", "RAKE"} }

(* A step of a settleMatch call on a match of the table. *)
SettleCall ==
  \E m \in DOMAIN matches : \E order \in MatchOrders(m) : \E masses \in [Users -> Masses] :
    \/ SettleMatch(m, order, masses, StoredSeed(m), StoredNonce(m))
    \/ SettleMatchFail(m, order, masses)

(* C33: a match is marked ended with its match_players results if and only *)
(* if its PAYOUT and RAKE rows are committed, and a settleMatch that fails  *)
(* leaves wallets, ledger, match and lobby unchanged.                       *)
C33_SettlementAtomic ==
  /\ [](\A m \in DOMAIN matches :
          (matches[m].ended_at /\ ResultsOf(m) # {}) <=> (SettlementRows(m) # {}))
  /\ [][(SettleCall /\ ~ret'.ok) =>
          UNCHANGED <<wallets, ledger, matches, match_players, lobbies>>]_vars

(* The ESCROW_LOCK rows of the buy-in of lobby l in the ledger of user u. *)
EscrowLocks(l, u) ==
  CopiesIn(Row(u, "ESCROW_LOCK", lobbies[l].buy_in_cents, l, ""), ledger)

(* C34: under any interleaving of joinLobby calls on one lobby the lobby   *)
(* never holds more than MAX_PLAYERS members, a join that succeeds adds a   *)
(* player who was not a member, and every member's join locked the buy-in  *)
(* exactly once (a lock without membership belongs to a join in flight).   *)
C34_ConcurrentJoinsBounded ==
  /\ [](/\ Cardinality(LobbyRows(1)) <= MAX_PLAYERS
        /\ \A u \in Users :
             EscrowLocks(1, u) =
               (IF <<1, u>> \in lobby_players THEN 1 ELSE 0)
                 + Cardinality({p \in Procs : txs[p].pc = "join_locked" /\ txs[p].u = u}))
  /\ [][\A p \in Procs :
          (JoinInsert(p) /\ ret'.ok) =>
            /\ <<txs[p].l, txs[p].u>> \notin lobby_players
            /\ Cardinality(lobby_players') = Cardinality(lobby_players) + 1]_vars

(* The lobby is full after a join that raced another: one user joined with *)
(* one lock, the other call was refused while it had the funds to join.    *)
C34_Witness ==
  /\ Cardinality(LobbyRows(1)) = MAX_PLAYERS
  /\ ret = Result("joinLobby", FALSE)
  /\ \E u \in Users : \E v \in Users \ {u} :
       /\ <<1, u>> \in lobby_players
       /\ EscrowLocks(1, u) = 1
       /\ <<1, v>> \notin lobby_players
       /\ wallets[v].available_cents >= lobbies[1].buy_in_cents

(* C35: leaveLobby for a player who is not a member of the named waiting   *)
(* lobby changes no wallet and adds no ledger row: escrow locked for       *)
(* another lobby is not moved back to available.                           *)
C35_NonMemberLeaveChangesNothing ==
  [][\A l \in DOMAIN lobbies : \A u \in Users :
       (LeaveLobby(l, u) /\ lobbies[l].state = "WAITING" /\ <<l, u>> \notin lobby_players)
         => UNCHANGED <<wallets, ledger>>]_vars

(* The buy-ins of the lobbies, waiting or in play, that user u is a member *)
(* of.                                                                     *)
OwedEscrow(u) ==
  SumSeq([l \in 1..Len(lobbies) |->
            IF lobbies[l].state # "COMPLETED" /\ <<l, u>> \in lobby_players
              THEN lobbies[l].buy_in_cents
              ELSE 0])

(* C36: every player's escrow_cents equals the sum of the buy-ins of the   *)
(* non-completed lobbies the player is a member of.                        *)
C36_EscrowEqualsOpenBuyIns ==
  \A u \in Users : wallets[u].escrow_cents = OwedEscrow(u)

(* C37: at most one match row exists per lobby, and startMatch on a lobby  *)
(* that is not WAITING is rejected without creating a match or changing    *)
(* the lobby.                                                              *)
C37_OneMatchPerLobby ==
  /\ [](\A m1, m2 \in DOMAIN matches :
          matches[m1].lobby_id = matches[m2].lobby_id => m1 = m2)
  /\ [][\A l \in DOMAIN lobbies :
          (StartMatch(l) /\ lobbies[l].state # "WAITING")
            => (~ret'.ok /\ UNCHANGED <<matches, lobbies>>)]_vars

(* The ledger rows of one type that were written for match m. *)
MatchRows(m, type) == { r \in BagToSet(ledger) : r.type = type /\ r.ref = m }

(* C38: under any interleaving of settleMatch and refundMatch calls on one *)
(* match at most one of them takes monetary effect: the ledger never holds *)
(* both PAYOUT rows and REFUND rows of the match.                          *)
C38_SettleOrRefundNotBoth ==
  ~(MatchRows(1, "PAYOUT") # {} /\ MatchRows(1, "REFUND") # {})

(* C39: for every match the rake and the net pot calculateResults computes *)
(* from the match config equal the rake_cents and net_pot_cents startMatch *)
(* persisted, whatever the lobby's rake cap (set, 0 or not set).           *)
C39_GameRakeEqualsPersistedRake ==
  \A m \in DOMAIN matches :
    LET l   == matches[m].lobby_id
        n   == Cardinality(LobbyRows(l))
        cfg == MatchConfig(l)
    IN  /\ GameRake(cfg, n) = matches[m].rake_cents
        /\ cfg.buyInCents * n - GameRake(cfg, n) = matches[m].net_pot_cents

(* C40: under any interleaving of deposit calls carrying the same          *)
(* idempotency key, one COMPLETED DEPOSIT row with the key exists at most  *)
(* and the available balance has grown by the amount of that row once.     *)
C40_ConcurrentKeyedDepositOnce ==
  /\ \A k \in IdemKeys \ {""} :
       LET rows == { r \in BagToSet(ledger) : r.idempotency_key = k }
       IN  /\ Cardinality(rows) <= 1
           /\ \A r \in rows : /\ CopiesIn(r, ledger) = 1
                               /\ r.type = "DEPOSIT"
                               /\ r.status = "COMPLETED"
  /\ \A u \in Users : wallets[u].available_cents = LedgerSum(u)

(* Two deposits with key k1 raced: both passed the idempotency lookup, one *)
(* committed its row and the other was refused by the unique index.        *)
C40_Witness ==
  /\ ret = Result("deposit", FALSE)
  /\ \E r \in BagToSet(ledger) :
       /\ r.idempotency_key = "k1"
       /\ CopiesIn(r, ledger) = 1
       /\ wallets[r.user_id].available_cents = r.amount_cents
====
